---- MODULE Spec2Model ----
(***************************************************************************)
(* A model of the compliance oracle: the framework catalogs               *)
(* (frameworks/manager.py), the mapping store and gap-analysis engine     *)
(* (frameworks/mapper.py) and the per-project compliance state store      *)
(* (documentation/state.py, tools/documentation.py).                      *)
(*                                                                         *)
(* Conventions.  Python strings are TLA+ strings; a composite key is the  *)
(* concatenation framework_id \o ":" \o control_id, as in the code.  A    *)
(* Python dict is a function, a Python list a sequence.  A list that the  *)
(* code builds by iterating a Python set (covered_by, missing_coverage)   *)
(* has no defined order and is modelled by the set of its elements; so is *)
(* sorted(a set), which the set determines.  A catalog document is the   *)
(* parsed JSON object, its shape told by the keys it has.  The            *)
(* pass-through fields of a control (name, description) are not state of  *)
(* the model; last_updated is a clock reading.  coverage_percentage is    *)
(* kept in tenths of a percent.  Requests that run concurrently on one    *)
(* manager take their steps one at a time, in any order.                  *)
(***************************************************************************)
EXTENDS Integers, Sequences, FiniteSets, TLC

VARIABLES
    frameworkDocs,   \* data_dir: framework id -> catalog document or absent
    mappingDocs,     \* mappings_dir: <<source, target>> -> mapping document or absent
    disk,            \* path of a .compliance-oracle/state.json -> that file
    mem,             \* ComplianceStateManager instance -> its cached _state
    cache,           \* _mappings_cache of the FrameworkMapper instance in use
    fcache,          \* _cache of the FrameworkManager that the requests share
    tasks,           \* request in flight -> its position and its locals
    result           \* what the most recent operation returned (or raised)

vars == <<frameworkDocs, mappingDocs, disk, mem, cache, fcache, tasks, result>>

----------------------------------------------------------------------------
(* Bounds of the model.                                                    *)

\* longest explicit mapping document (number of triples)
MaxMappings == 2

\* longest evidence list a record may reach
MaxEvidence == 2

\* longest evidence list a document_control call carries
MaxDocEvidence == 1

\* most controls a target catalog document holds
MaxTargetControls == 3

\* most informative references a source control carries
MaxReferences == 2

----------------------------------------------------------------------------
(* Identifiers.                                                            *)

CSF == "nist-csf-2.0"
R53 == "nist-800-53-r5"
\* a framework id that FrameworkManager's file_map does not know
UnknownFw == "iso-27001"

FrameworkIds == {CSF, R53, UnknownFw}

\* schemas.py ControlStatus
IMPLEMENTED == "implemented"
PARTIAL == "partial"
PLANNED == "planned"
NOT_APPLICABLE == "not_applicable"
NOT_ADDRESSED == "not_addressed"
ControlStatus == {IMPLEMENTED, PARTIAL, PLANNED, NOT_APPLICABLE, NOT_ADDRESSED}

\* schemas.py ControlRelationship
EQUIVALENT == "equivalent"
BROADER == "broader"
NARROWER == "narrower"
RELATED == "related"
ControlRelationship == {EQUIVALENT, BROADER, NARROWER, RELATED}

\* schemas.py EvidenceType
EvidenceType == {"config", "code", "document", "url", "screenshot", "other"}

None == "None"

\* the images of a sequence
Range(s) == {s[i] : i \in DOMAIN s}

\* str.startswith
StartsWith(s, prefix) ==
    /\ Len(s) >= Len(prefix)
    /\ SubSeq(s, 1, Len(prefix)) = prefix

\* the empty dict
EmptyDict == [k \in {} |-> None]

\* d with d[key] = value
DictSet(d, key, value) ==
    [k \in DOMAIN d \cup {key} |-> IF k = key THEN value ELSE d[k]]

\* d after del d[key]
DictDel(d, key) == [k \in DOMAIN d \ {key} |-> d[k]]

----------------------------------------------------------------------------
(* Framework catalog (frameworks/manager.py).                              *)

\* file_map of _load_framework: the ids that have a backing file name
file_map == {CSF, R53}

\* An absent document
NoFile == [exists |-> FALSE, controls |-> <<>>]

\* _load_framework with a default file name for an unmapped id (a slip of
\* file_map.get(framework_id, "nist-csf-2.0.json"))
_load_framework_Default(framework_id) ==
    IF framework_id \notin file_map
    THEN frameworkDocs[CSF]
    ELSE frameworkDocs[framework_id]

\* _load_framework: the parsed document, or None (here NoFile) when the id
\* is unmapped or the file is absent.  The cache holds what was read.
_load_framework(framework_id) ==
    IF framework_id \notin file_map
    THEN NoFile
    ELSE frameworkDocs[framework_id]

\* A catalog document is the parsed JSON object, a record of its keys, with
\* the field exists telling that the file is there.  dict.get(key, default):
Get(d, key, default) == IF key \in DOMAIN d THEN d[key] ELSE default

\* `not data`: no document, or a document that is the empty object
Falsy(data) == ~data.exists \/ DOMAIN data = {"exists"}

\* the index of the first sep (one character) in s at or after i, 0 if none
RECURSIVE Find(_, _, _)
Find(s, sep, i) ==
    IF i > Len(s) THEN 0
    ELSE IF SubSeq(s, i, i) = sep THEN i
    ELSE Find(s, sep, i + 1)

\* str.split(sep) and sep.join(parts)
RECURSIVE split(_, _)
split(s, sep) ==
    LET at == Find(s, sep, 1)
    IN  IF at = 0 THEN <<s>>
        ELSE <<SubSeq(s, 1, at - 1)>> \o split(SubSeq(s, at + 1, Len(s)), sep)

RECURSIVE join(_, _)
join(sep, parts) ==
    IF parts = <<>> THEN ""
    ELSE IF Len(parts) = 1 THEN parts[1]
    ELSE parts[1] \o sep \o join(sep, Tail(parts))

\* parts[:n]
Take(parts, n) == SubSeq(parts, 1, IF Len(parts) < n THEN Len(parts) ELSE n)

\* the concatenation of a sequence of sequences
RECURSIVE Flatten(_)
Flatten(ss) == IF ss = <<>> THEN <<>> ELSE Head(ss) \o Flatten(Tail(ss))

\* {x["id"]: x for x in items}.get(id, {}): the last item with that id
Lookup(items, id) ==
    LET hits == {i \in DOMAIN items : items[i].id = id}
    IN  IF hits = {} THEN [k \in {} |-> ""]
        ELSE items[CHOOSE i \in hits : \A j \in hits : j <= i]

\* schemas.py Control, without its names and texts
Control(id, framework_id, function_id, category_id, informative_references) ==
    [id |-> id,
     framework_id |-> framework_id,
     function_id |-> function_id,
     category_id |-> category_id,
     informative_references |-> informative_references]

\* the category id of a subcategory element:
\* ".".join(sub_id.split(".")[:2]) if "." in sub_id else ""
ElementCategory(sub_id) ==
    IF Find(sub_id, ".", 1) # 0 THEN join(".", Take(split(sub_id, "."), 2)) ELSE ""

\* cat_id.split(".")[0] if "." in cat_id else ""
ElementFunction(cat_id) ==
    IF Find(cat_id, ".", 1) # 0 THEN split(cat_id, ".")[1] ELSE ""

\* ctrl_id.split("-")[0] if "-" in ctrl_id else ""
ElementFamily(ctrl_id) ==
    IF Find(ctrl_id, "-", 1) # 0 THEN split(ctrl_id, "-")[1] ELSE ""

\* the flat elements shape: the subcategory elements of the CSF, the control
\* elements of 800-53, nothing for another framework id
ElementControls(raw_elements, framework_id) ==
    IF framework_id = "nist-csf-2.0"
    THEN LET subs == SelectSeq(raw_elements,
                        LAMBDA e : Get(e, "element_type", "") = "subcategory")
         IN  [i \in DOMAIN subs |->
                LET sub_id == Get(subs[i], "element_identifier", "")
                    cat_id == ElementCategory(sub_id)
                IN  Control(sub_id, framework_id, ElementFunction(cat_id), cat_id,
                            Get(subs[i], "informative_references", <<>>))]
    ELSE IF framework_id = "nist-800-53-r5"
    THEN LET ctrls == SelectSeq(raw_elements,
                        LAMBDA e : Get(e, "element_type", "") = "control")
         IN  [i \in DOMAIN ctrls |->
                LET ctrl_id == Get(ctrls[i], "element_identifier", "")
                    family_id == ElementFamily(ctrl_id)
                IN  Control(ctrl_id, framework_id, family_id, family_id,
                            Get(ctrls[i], "informative_references", <<>>))]
    ELSE <<>>

\* the flat subcategories shape: the function of a subcategory is the one
\* its category names
FlatControls(data, framework_id) ==
    LET subs == Get(data, "subcategories", <<>>)
        categories == Get(data, "categories", <<>>)
    IN  [i \in DOMAIN subs |->
            LET cat_id == Get(subs[i], "category_id", "")
                func_id == Get(Lookup(categories, cat_id), "function_id", "")
            IN  Control(Get(subs[i], "id", ""), framework_id, func_id, cat_id,
                        Get(subs[i], "informative_references", <<>>))]

\* the nested shape functions -> categories -> subcategories
NestedControls(data, framework_id) ==
    LET functions == Get(data, "functions", <<>>)
        OfCategory(func, cat) ==
            LET subs == Get(cat, "subcategories", <<>>)
            IN  [k \in DOMAIN subs |->
                    Control(Get(subs[k], "id", ""), framework_id,
                            Get(func, "id", ""), Get(cat, "id", ""),
                            Get(subs[k], "informative_references", <<>>))]
        OfFunction(func) ==
            LET cats == Get(func, "categories", <<>>)
            IN  Flatten([j \in DOMAIN cats |-> OfCategory(func, cats[j])])
    IN  Flatten([i \in DOMAIN functions |-> OfFunction(functions[i])])

\* the controls-with-family shape: the family is function and category
FamilyControls(data, framework_id) ==
    LET ctrls == Get(data, "controls", <<>>)
    IN  [i \in DOMAIN ctrls |->
            LET family_id == Get(ctrls[i], "family_id", "")
            IN  Control(Get(ctrls[i], "id", ""), framework_id, family_id, family_id,
                        Get(ctrls[i], "informative_references", <<>>))]

\* _extract_controls: the shape is told by the keys of the document
_extract_controls(data, framework_id) ==
    IF "response" \in DOMAIN data /\ "elements" \in DOMAIN data.response
    THEN ElementControls(Get(data.response.elements, "elements", <<>>), framework_id)
    ELSE IF "subcategories" \in DOMAIN data THEN FlatControls(data, framework_id)
    ELSE IF "functions" \in DOMAIN data THEN NestedControls(data, framework_id)
    ELSE IF "controls" \in DOMAIN data THEN FamilyControls(data, framework_id)
    ELSE <<>>

\* an empty filter (None or "") is no filter
Truthy(str) == str # "None" /\ str # ""

\* list_controls(framework_id, function_id, category_id): [] when the
\* document is missing or is the empty object, else the controls extracted
\* from it that pass the filters
list_controls_by(framework_id, function_id, category_id) ==
    LET data == _load_framework(framework_id)
    IN  IF Falsy(data) THEN <<>>
        ELSE SelectSeq(_extract_controls(data, framework_id),
                LAMBDA c : /\ Truthy(function_id) => c.function_id = function_id
                           /\ Truthy(category_id) => c.category_id = category_id)

\* list_controls without filters
list_controls(framework_id) == list_controls_by(framework_id, "None", "None")

\* _get_related_controls: the ids of the other entries of the document's
\* "subcategories" list that have the category_id of the first entry with
\* that id
_get_related_controls(data, control_id) ==
    LET subs == Get(data, "subcategories", <<>>)
        hits == {i \in DOMAIN subs : Get(subs[i], "id", "None") = control_id}
    IN  IF hits = {} THEN <<>>
        ELSE LET first == CHOOSE i \in hits : \A j \in hits : i <= j
                 cat_id == Get(subs[first], "category_id", "")
                 others == SelectSeq(subs,
                              LAMBDA o : /\ Get(o, "category_id", "") = cat_id
                                         /\ Get(o, "id", "") # control_id)
             IN  [k \in DOMAIN others |-> Get(others[k], "id", "")]

\* get_control_details: the first extracted control with that id, with its
\* related controls; found is FALSE where the code returns None
get_control_details(framework_id, control_id) ==
    LET data == _load_framework(framework_id)
        controls == IF Falsy(data) THEN <<>> ELSE _extract_controls(data, framework_id)
        hits == {i \in DOMAIN controls : controls[i].id = control_id}
    IN  IF hits = {}
        THEN [found |-> FALSE, informative_references |-> <<>>]
        ELSE LET first == CHOOSE i \in hits : \A j \in hits : i <= j
             IN  [found |-> TRUE,
                  id |-> controls[first].id,
                  framework_id |-> controls[first].framework_id,
                  function_id |-> controls[first].function_id,
                  category_id |-> controls[first].category_id,
                  informative_references |-> controls[first].informative_references,
                  related_controls |-> _get_related_controls(data, control_id)]

----------------------------------------------------------------------------
(* Mapping store (frameworks/mapper.py).                                   *)

UpperChars == {"A", "B", "C", "D", "E", "F", "G", "H", "I", "J", "K", "L", "M",
               "N", "O", "P", "Q", "R", "S", "T", "U", "V", "W", "X", "Y", "Z"}
LowerChars == {"a", "b", "c", "d", "e", "f", "g", "h", "i", "j", "k", "l", "m",
               "n", "o", "p", "q", "r", "s", "t", "u", "v", "w", "x", "y", "z"}
DigitChars == {"0", "1", "2", "3", "4", "5", "6", "7", "8", "9"}
\* the characters the regular expression's \b and \w call word characters
WordChars == UpperChars \cup LowerChars \cup DigitChars \cup {"_"}

\* the character of s at position i (1-based), "" outside the string
CharAt(s, i) == IF i >= 1 /\ i <= Len(s) THEN SubSeq(s, i, i) ELSE ""

\* "sub in s"
Contains(s, sub) ==
    \E i \in 1..(Len(s) - Len(sub) + 1) : SubSeq(s, i, i + Len(sub) - 1) = sub

\* the position of the last digit of the longest run of digits that starts
\* at position i (i - 1 when there is none)
RECURSIVE DigitsEnd(_, _)
DigitsEnd(s, i) ==
    IF CharAt(s, i) \in DigitChars THEN DigitsEnd(s, i + 1) ELSE i - 1

\* \b at the gap before position i
WordBoundary(s, i) ==
    (CharAt(s, i - 1) \in WordChars) # (CharAt(s, i) \in WordChars)

\* One attempt of  \b([A-Z]{2})-(\d+)(?:\((\d+)\))?\b  at position i:
\* the identifier the code formats from the groups and the position after
\* the match.  The optional group is tried first (greedy) and given up
\* when the final \b fails after the closing parenthesis.
MatchAt(s, i) ==
    LET e == DigitsEnd(s, i + 3)
        f == DigitsEnd(s, e + 2)
        head == /\ WordBoundary(s, i)
                /\ CharAt(s, i) \in UpperChars
                /\ CharAt(s, i + 1) \in UpperChars
                /\ CharAt(s, i + 2) = "-"
                /\ e >= i + 3
        withGroup == /\ head
                     /\ CharAt(s, e + 1) = "("
                     /\ f >= e + 2
                     /\ CharAt(s, f + 1) = ")"
                     /\ WordBoundary(s, f + 2)
        without == head /\ WordBoundary(s, e + 1)
    IN  IF withGroup
        THEN [ok |-> TRUE, next |-> f + 2,
              id |-> SubSeq(s, i, e) \o "(" \o SubSeq(s, e + 2, f) \o ")"]
        ELSE IF without
        THEN [ok |-> TRUE, next |-> e + 1, id |-> SubSeq(s, i, e)]
        ELSE [ok |-> FALSE, next |-> i + 1, id |-> ""]

\* re.findall: the matches from position i on, left to right, not overlapping
RECURSIVE FindAll(_, _)
FindAll(s, i) ==
    IF i > Len(s)
    THEN <<>>
    ELSE LET m == MatchAt(s, i)
         IN  IF m.ok THEN <<m.id>> \o FindAll(s, m.next) ELSE FindAll(s, i + 1)

\* _extract_control_ids: only for the target nist-800-53-r5, and only from a
\* reference that mentions "800-53"
_extract_control_ids(reference, target_framework) ==
    IF target_framework # R53
    THEN <<>>
    ELSE IF ~Contains(reference, "800-53") /\ ~Contains(reference, "SP 800-53")
    THEN <<>>
    ELSE FindAll(reference, 1)

\* schemas.py ControlMapping
ControlMapping(source_id, source_framework, target_id, target_framework, rel) ==
    [source_control_id |-> source_id,
     source_framework_id |-> source_framework,
     target_control_id |-> target_id,
     target_framework_id |-> target_framework,
     relationship |-> rel]

\* a synthesis that takes a mention in a reference for an equivalence
RefMappings_Equivalent(ctrl_id, ref, source_framework, target_framework) ==
    LET target_ids == _extract_control_ids(ref, target_framework)
    IN  [k \in DOMAIN target_ids |->
            ControlMapping(ctrl_id, source_framework, target_ids[k],
                           target_framework, EQUIVALENT)]

\* the mappings one reference string of one source control yields
RefMappings(ctrl_id, ref, source_framework, target_framework) ==
    LET target_ids == _extract_control_ids(ref, target_framework)
    IN  [k \in DOMAIN target_ids |->
            ControlMapping(ctrl_id, source_framework, target_ids[k],
                           target_framework, RELATED)]

\* the mappings of the references refs[i..] of one source control
RECURSIVE RefsMappings(_, _, _, _, _)
RefsMappings(ctrl_id, refs, i, source_framework, target_framework) ==
    IF i > Len(refs)
    THEN <<>>
    ELSE RefMappings(ctrl_id, refs[i], source_framework, target_framework)
         \o RefsMappings(ctrl_id, refs, i + 1, source_framework, target_framework)

\* the loop of _generate_mappings_from_references over source_controls[i..]
RECURSIVE GenerateFrom(_, _, _, _)
GenerateFrom(source_controls, i, source_framework, target_framework) ==
    IF i > Len(source_controls)
    THEN <<>>
    ELSE LET ctrl == source_controls[i]
             details == get_control_details(source_framework, ctrl.id)
             here == IF ~details.found
                     THEN <<>>
                     ELSE RefsMappings(ctrl.id, details.informative_references, 1,
                                       source_framework, target_framework)
         IN  here \o GenerateFrom(source_controls, i + 1,
                                  source_framework, target_framework)

_generate_mappings_from_references(source_framework, target_framework) ==
    GenerateFrom(list_controls(source_framework), 1,
                 source_framework, target_framework)

\* a mapping triple that carries no "relationship" key
MissingKey == "<missing>"

\* rel_map.get(rel_str, RELATED) after m.get("relationship", "related")
rel_map(rel_str) ==
    CASE rel_str = "equivalent" -> EQUIVALENT
      [] rel_str = "subset" -> NARROWER
      [] rel_str = "narrower" -> NARROWER
      [] rel_str = "superset" -> BROADER
      [] rel_str = "broader" -> BROADER
      [] rel_str = "related" -> RELATED
      [] OTHER -> RELATED

\* a cache key that forgets the direction of the pair
cache_key_Unordered(source_framework, target_framework) ==
    IF source_framework = CSF \/ target_framework # CSF
    THEN source_framework \o ":" \o target_framework
    ELSE target_framework \o ":" \o source_framework

\* cache_key = f"{source_framework}:{target_framework}"
cache_key(source_framework, target_framework) ==
    source_framework \o ":" \o target_framework

\* _load_mappings past the cache: the explicit document's triples when the
\* file exists, else the synthesized mappings
ReadMappings(source_framework, target_framework) ==
    LET doc == mappingDocs[<<source_framework, target_framework>>]
    IN  IF doc.exists
        THEN [k \in DOMAIN doc.mappings |->
                ControlMapping(doc.mappings[k].source_control_id, source_framework,
                               doc.mappings[k].target_control_id, target_framework,
                               rel_map(doc.mappings[k].relationship))]
        ELSE _generate_mappings_from_references(source_framework, target_framework)

\* _load_mappings on a mapper whose _mappings_cache is mappings_cache: the
\* cached list when the pair's key is cached, else what is read
_load_mappings(mappings_cache, source_framework, target_framework) ==
    LET key == cache_key(source_framework, target_framework)
    IN  IF key \in DOMAIN mappings_cache
        THEN mappings_cache[key]
        ELSE ReadMappings(source_framework, target_framework)

----------------------------------------------------------------------------
(* Compliance state store: loading (documentation/state.py).               *)

\* ComplianceState(): no controls
EmptyState == [controls |-> EmptyDict]

\* JSON null, a JSON string and a JSON array, as the state file holds them
JsonNull == [kind |-> "null"]
JsonString(s) == [kind |-> "string", value |-> s]
JsonArray(items) == [kind |-> "array", items |-> items]

\* the decimal digit of a clock reading 0..9
DigitOf == <<"0", "1", "2", "3", "4", "5", "6", "7", "8", "9">>

\* a datetime (a clock reading in seconds, 0..9) in JSON mode: the ISO 8601
\* text pydantic writes
isoformat(t) == "2025-01-01T00:00:0" \o DigitOf[t + 1]

\* pydantic parsing that text back into a datetime
fromisoformat(s) == CHOOSE t \in 0..9 : DigitOf[t + 1] = CharAt(s, Len(s))

\* an optional text field (str | None) in JSON mode, and back
DumpOptional(v) == IF v = None THEN JsonNull ELSE JsonString(v)
ValidateOptional(j) == IF j.kind = "null" THEN None ELSE j.value

\* Evidence.model_dump that drops the line range
DumpEvidence_NoLineRange(e) ==
    [type |-> e.type, path |-> e.path, line_range |-> JsonNull,
     description |-> e.description]

\* Evidence.model_dump(mode="json"): the enum by its value, the line_range
\* tuple as an array, an absent line_range as null
DumpEvidence(e) ==
    [type |-> e.type,
     path |-> e.path,
     line_range |-> IF e.line_range = <<>> THEN JsonNull ELSE JsonArray(e.line_range),
     description |-> e.description]

\* Evidence.model_validate of the parsed JSON object
ValidateEvidence(j) ==
    [type |-> j.type,
     path |-> j.path,
     line_range |-> IF j.line_range.kind = "null" THEN <<>> ELSE j.line_range.items,
     description |-> j.description]

\* ControlDocumentation.model_dump(mode="json")
DumpControl(doc) ==
    [control_id |-> doc.control_id,
     framework_id |-> doc.framework_id,
     status |-> doc.status,
     derived_status |-> DumpOptional(doc.derived_status),
     derived_sources |-> doc.derived_sources,
     implementation_summary |-> DumpOptional(doc.implementation_summary),
     evidence |-> [i \in DOMAIN doc.evidence |-> DumpEvidence(doc.evidence[i])],
     owner |-> DumpOptional(doc.owner),
     notes |-> DumpOptional(doc.notes),
     last_updated |-> isoformat(doc.last_updated)]

\* ControlDocumentation.model_validate of the parsed JSON object
ValidateControl(j) ==
    [control_id |-> j.control_id,
     framework_id |-> j.framework_id,
     status |-> j.status,
     derived_status |-> ValidateOptional(j.derived_status),
     derived_sources |-> j.derived_sources,
     implementation_summary |-> ValidateOptional(j.implementation_summary),
     evidence |-> [i \in DOMAIN j.evidence |-> ValidateEvidence(j.evidence[i])],
     owner |-> ValidateOptional(j.owner),
     notes |-> ValidateOptional(j.notes),
     last_updated |-> fromisoformat(j.last_updated)]

\* ComplianceState.model_dump(mode="json"): the controls object of the file
model_dump(state) ==
    [controls |-> [k \in DOMAIN state.controls |-> DumpControl(state.controls[k])]]

\* ComplianceState.model_validate(json.load(f))
model_validate(data) ==
    [controls |-> [k \in DOMAIN data.controls |-> ValidateControl(data.controls[k])]]

\* the project root the tools default to (project_path = "."), and the
\* root of a second project
ProjectPath == "."
OtherProjectPath == "/srv/other"
ProjectPaths == {ProjectPath, OtherProjectPath}

\* a manager that keeps its state under the working directory, whatever
\* project it was made for
state_file_Shared(project_path) == "./.compliance-oracle/state.json"

\* __init__: _state_file = project_path / STATE_DIR / STATE_FILE
state_file(project_path) == project_path \o "/.compliance-oracle/state.json"

\* the state file of the default project
StateFile == disk[state_file(ProjectPath)]

\* what _load_state reads from a state file when nothing is cached: the
\* document parsed and validated when the file exists, else a new empty state
LoadFrom(path) ==
    IF disk[path].exists THEN model_validate(disk[path]) ELSE EmptyState

\* what a new manager of the default project loads
LoadFromDisk == LoadFrom(state_file(ProjectPath))

\* the composite key f"{framework_id}:{control_id}"
Key(framework_id, control_id) == framework_id \o ":" \o control_id

----------------------------------------------------------------------------
(* Gap analysis engine (frameworks/mapper.py, analyze_gap).                *)

\* Step 1 counting only the status implemented (not_applicable dropped)
DocumentedImplemented_OnlyImplemented(current_framework) ==
    LET state == LoadFromDisk
        prefix == current_framework \o ":"
    IN  {state.controls[key].control_id :
            key \in {k \in DOMAIN state.controls :
                        /\ StartsWith(k, prefix)
                        /\ state.controls[k].status = IMPLEMENTED}}

\* Step 1 with use_documented_state: the control ids of the records whose
\* key starts with "<current_framework>:" and whose status is implemented
\* or not_applicable (a fresh ComplianceStateManager reads the project's file)
DocumentedImplemented(current_framework) ==
    LET state == LoadFromDisk
        prefix == current_framework \o ":"
    IN  {state.controls[key].control_id :
            key \in {k \in DOMAIN state.controls :
                        /\ StartsWith(k, prefix)
                        /\ state.controls[k].status \in {IMPLEMENTED, NOT_APPLICABLE}}}

\* Step 1: the implemented set of the current framework
CurrentImplemented(current_framework, use_documented_state) ==
    IF use_documented_state
    THEN DocumentedImplemented(current_framework)
    ELSE {c.id : c \in Range(list_controls(current_framework))}

\* target_to_mappings.get(target_id, []): as the code reads it, the set of
\* the mappings whose target is that control
MappingsForTarget(mappings, target_id) ==
    {m \in Range(mappings) : m.target_control_id = target_id}

\* the source controls of the mappings of a target that have a relationship in rels
Sources(mappings_for_target, rels) ==
    {m.source_control_id : m \in {x \in mappings_for_target : x.relationship \in rels}}

\* what a rule yields when it does not resolve the control
Unresolved == [resolved |-> FALSE, bucket |-> "", entry |-> [control_id |-> ""]]

\* Rule 1: a control that is the target of no mapping
NoMappingGap(target_id) ==
    [resolved |-> TRUE, bucket |-> "gaps",
     entry |-> [control_id |-> target_id,
                reason |-> "No mapping from current framework"]]

\* Rule 2 as a count over all mapped sources: a control with equivalent or
\* broader mappings is fully covered only if every mapped source, of any
\* relationship, is implemented
EqBroaderRule_CountAll(target_id, mappings_for_target, current_implemented) ==
    LET eq_broader_sources == Sources(mappings_for_target, {EQUIVALENT, BROADER})
        all_sources == Sources(mappings_for_target, ControlRelationship)
        implemented_eq_broader == eq_broader_sources \cap current_implemented
        missing == all_sources \ current_implemented
    IN  IF eq_broader_sources = {} \/ implemented_eq_broader = {}
        THEN [resolved |-> FALSE, bucket |-> "", entry |-> [control_id |-> ""]]
        ELSE IF missing = {}
        THEN [resolved |-> TRUE, bucket |-> "already_covered",
              entry |-> [control_id |-> target_id,
                         covered_by |-> implemented_eq_broader,
                         relationship_summary |->
                            "equivalent/broader mappings fully implemented"]]
        ELSE [resolved |-> TRUE, bucket |-> "partially_covered",
              entry |-> [control_id |-> target_id,
                         covered_by |-> implemented_eq_broader,
                         missing_coverage |-> missing,
                         relationship_summary |->
                            "some equivalent/broader mappings implemented"]]

\* Rule 2: equivalent/broader mappings, the strongest evidence
EqBroaderRule(target_id, mappings_for_target, current_implemented) ==
    LET eq_broader_sources == Sources(mappings_for_target, {EQUIVALENT, BROADER})
        implemented_eq_broader == eq_broader_sources \cap current_implemented
        missing_eq_broader == eq_broader_sources \ current_implemented
    IN  IF eq_broader_sources = {}
        THEN Unresolved
        ELSE IF implemented_eq_broader # {} /\ missing_eq_broader = {}
        THEN [resolved |-> TRUE, bucket |-> "already_covered",
              entry |-> [control_id |-> target_id,
                         covered_by |-> implemented_eq_broader,
                         relationship_summary |->
                            "equivalent/broader mappings fully implemented"]]
        ELSE IF implemented_eq_broader # {}
        THEN [resolved |-> TRUE, bucket |-> "partially_covered",
              entry |-> [control_id |-> target_id,
                         covered_by |-> implemented_eq_broader,
                         missing_coverage |-> missing_eq_broader,
                         relationship_summary |->
                            "some equivalent/broader mappings implemented"]]
        ELSE Unresolved

\* Rule 3 granting full coverage when every narrower source is implemented
NarrowerRule_FullWhenAll(target_id, mappings_for_target, current_implemented) ==
    LET narrow_sources == Sources(mappings_for_target, {NARROWER})
        implemented_narrow == narrow_sources \cap current_implemented
        missing_narrow == narrow_sources \ current_implemented
    IN  IF narrow_sources = {} \/ implemented_narrow = {}
        THEN [resolved |-> FALSE, bucket |-> "", entry |-> [control_id |-> ""]]
        ELSE IF missing_narrow = {}
        THEN [resolved |-> TRUE, bucket |-> "already_covered",
              entry |-> [control_id |-> target_id,
                         covered_by |-> implemented_narrow,
                         relationship_summary |->
                            "narrower mappings fully implemented"]]
        ELSE [resolved |-> TRUE, bucket |-> "partially_covered",
              entry |-> [control_id |-> target_id,
                         covered_by |-> implemented_narrow,
                         missing_coverage |-> missing_narrow,
                         relationship_summary |->
                            "source controls are narrower than target; partial coverage inferred"]]

\* Rule 3: narrower mappings (the source is narrower than the target)
NarrowerRule(target_id, mappings_for_target, current_implemented) ==
    LET narrow_sources == Sources(mappings_for_target, {NARROWER})
        implemented_narrow == narrow_sources \cap current_implemented
        missing_narrow == narrow_sources \ current_implemented
    IN  IF narrow_sources # {} /\ implemented_narrow # {}
        THEN [resolved |-> TRUE, bucket |-> "partially_covered",
              entry |-> [control_id |-> target_id,
                         covered_by |-> implemented_narrow,
                         missing_coverage |-> missing_narrow,
                         relationship_summary |->
                            "source controls are narrower than target; partial coverage inferred"]]
        ELSE Unresolved

\* Rules 4 and 5 with mapped_from listing every mapped source instead of
\* the related ones
FallbackGap_AllSources(target_id, mappings_for_target) ==
    LET related == Sources(mappings_for_target, {RELATED})
        all_source_controls == Sources(mappings_for_target, ControlRelationship)
    IN  IF related # {}
        THEN [resolved |-> TRUE, bucket |-> "gaps",
              entry |-> [control_id |-> target_id,
                         reason |-> "Only related mappings exist; needs direct assessment in target framework",
                         mapped_from |-> all_source_controls]]
        ELSE [resolved |-> TRUE, bucket |-> "gaps",
              entry |-> [control_id |-> target_id,
                         reason |-> "Mapped controls not implemented",
                         reason_controls |-> all_source_controls]]

\* Rules 4 and 5: no implemented equivalent, broader or narrower mapping.
\* The reason of rule 5 is the text "Mapped controls not implemented: "
\* followed by sorted(all_source_controls), kept here as reason_controls.
FallbackGap(target_id, mappings_for_target) ==
    LET related == Sources(mappings_for_target, {RELATED})
        all_source_controls == Sources(mappings_for_target, ControlRelationship)
    IN  IF related # {}
        THEN [resolved |-> TRUE, bucket |-> "gaps",
              entry |-> [control_id |-> target_id,
                         reason |-> "Only related mappings exist; needs direct assessment in target framework",
                         mapped_from |-> related]]
        ELSE [resolved |-> TRUE, bucket |-> "gaps",
              entry |-> [control_id |-> target_id,
                         reason |-> "Mapped controls not implemented",
                         reason_controls |-> all_source_controls]]

\* The loop body without the special case of a control that has no mapping
Classify_NoRule1(target_id, mappings, current_implemented) ==
    LET mappings_for_target == MappingsForTarget(mappings, target_id)
        rule2 == EqBroaderRule(target_id, mappings_for_target, current_implemented)
        rule3 == NarrowerRule(target_id, mappings_for_target, current_implemented)
    IN  IF rule2.resolved THEN rule2
        ELSE IF rule3.resolved THEN rule3
        ELSE FallbackGap(target_id, mappings_for_target)

\* The loop body with the narrower mappings looked at before the
\* equivalent/broader ones
Classify_NarrowerFirst(target_id, mappings, current_implemented) ==
    LET mappings_for_target == MappingsForTarget(mappings, target_id)
        rule2 == EqBroaderRule(target_id, mappings_for_target, current_implemented)
        rule3 == NarrowerRule(target_id, mappings_for_target, current_implemented)
    IN  IF mappings_for_target = {} THEN NoMappingGap(target_id)
        ELSE IF rule3.resolved THEN rule3
        ELSE IF rule2.resolved THEN rule2
        ELSE FallbackGap(target_id, mappings_for_target)

\* One pass of the loop over target_controls: the bucket the control goes
\* to and the entry appended to it (the first rule that resolves it)
Classify(target_id, mappings, current_implemented) ==
    LET mappings_for_target == MappingsForTarget(mappings, target_id)
        rule2 == EqBroaderRule(target_id, mappings_for_target, current_implemented)
        rule3 == NarrowerRule(target_id, mappings_for_target, current_implemented)
    IN  IF mappings_for_target = {} THEN NoMappingGap(target_id)
        ELSE IF rule2.resolved THEN rule2
        ELSE IF rule3.resolved THEN rule3
        ELSE FallbackGap(target_id, mappings_for_target)

\* The buckets of a loop whose partially-covered branches lack their
\* "continue": such a control is appended to gaps as well
RECURSIVE Bucket_NoContinue(_, _, _, _, _)
Bucket_NoContinue(name, target_controls, i, mappings, current_implemented) ==
    IF i > Len(target_controls)
    THEN <<>>
    ELSE LET c == Classify(target_controls[i].id, mappings, current_implemented)
             rest == Bucket_NoContinue(name, target_controls, i + 1, mappings,
                                       current_implemented)
         IN  IF c.bucket = name \/ (name = "gaps" /\ c.bucket = "partially_covered")
             THEN <<c.entry>> \o rest
             ELSE rest

\* the entries of one bucket, in target-catalog order
RECURSIVE Bucket(_, _, _, _, _)
Bucket(name, target_controls, i, mappings, current_implemented) ==
    IF i > Len(target_controls)
    THEN <<>>
    ELSE LET c == Classify(target_controls[i].id, mappings, current_implemented)
             rest == Bucket(name, target_controls, i + 1, mappings, current_implemented)
         IN  IF c.bucket = name THEN <<c.entry>> \o rest ELSE rest

\* round(n / d, 0) of Python for n >= 0, d > 0: to the nearest integer, a
\* tie going to the even one
RoundDiv(n, d) ==
    LET q == n \div d
        r == n % d
    IN  IF 2 * r < d THEN q
        ELSE IF 2 * r > d THEN q + 1
        ELSE IF q % 2 = 0 THEN q ELSE q + 1

\* the percentage cut to one decimal instead of rounded
CoveragePercentage_Truncated(covered, partial, total) ==
    IF total = 0 THEN 0 ELSE ((2 * covered + partial) * 500) \div total

\* round((covered + partial * 0.5) / total * 100 if total else 0, 1), in
\* tenths of a percent
CoveragePercentage(covered, partial, total) ==
    IF total = 0 THEN 0 ELSE RoundDiv((2 * covered + partial) * 500, total)

\* Steps 3 and 4 of analyze_gap: the loop over target_controls fills the
\* three buckets, the summary counts them (the result carries the
\* implemented set and the mappings it worked from, which the code keeps in
\* locals)
GapAnalysisResult(current_framework, target_framework, use_documented_state, mappings, target_controls, current_implemented) ==
    LET already_covered ==
            Bucket("already_covered", target_controls, 1, mappings, current_implemented)
        partially_covered ==
            Bucket("partially_covered", target_controls, 1, mappings, current_implemented)
        gaps == Bucket("gaps", target_controls, 1, mappings, current_implemented)
    IN  [op |-> "analyze_gap",
         raised |-> None,
         current_framework |-> current_framework,
         target_framework |-> target_framework,
         use_documented_state |-> use_documented_state,
         current_implemented |-> current_implemented,
         mappings |-> mappings,
         already_covered |-> already_covered,
         partially_covered |-> partially_covered,
         gaps |-> gaps,
         summary |-> [total_target_controls |-> Len(target_controls),
                      fully_covered |-> Len(already_covered),
                      partially_covered |-> Len(partially_covered),
                      gaps |-> Len(gaps),
                      coverage_percentage |->
                          CoveragePercentage(Len(already_covered),
                                             Len(partially_covered),
                                             Len(target_controls))]]

\* analyze_gap: the mappings of the pair, the target catalog and the
\* implemented set, then the classification of every target control
analyze_gap(current_framework, target_framework, use_documented_state) ==
    GapAnalysisResult(current_framework, target_framework, use_documented_state,
                      _load_mappings(EmptyDict, current_framework, target_framework),
                      list_controls(target_framework),
                      CurrentImplemented(current_framework, use_documented_state))

----------------------------------------------------------------------------
(* Compliance state store: operations (documentation/state.py).            *)

\* the requests in flight on one FrameworkManager and its mapper
Tasks == {"t1", "t2"}

\* a request that has not started.  found is FALSE where the call returned
\* None; missed tells that the call found nothing cached and read the
\* document itself
Idle ==
    [pc |-> "idle", op |-> None, source |-> None, target |-> None,
     local |-> <<>>, items |-> <<>>, missed |-> FALSE,
     found |-> FALSE, returned |-> <<>>]

\* a loop whose list is the cache entry itself: every append shows in the
\* cache
AfterAppend_Aliased(mappings_cache, key, mappings) ==
    DictSet(mappings_cache, key, mappings)

\* the cache after an append to the list being built: the list is a local
\* of the call, the cache is not touched
AfterAppend(mappings_cache, key, mappings) == mappings_cache

\* the manager instance of the runs with one manager
Managers == {"m1"}

\* every manager instance of the model, and the project_path each was
\* constructed with: two instances for the default project, one for the other
Instances == {"m1", "m2", "m3"}
project_path(m) == IF m = "m3" THEN OtherProjectPath ELSE ProjectPath

\* a manager right after __init__: nothing cached (_state is None)
Unloaded == [loaded |-> FALSE, state |-> EmptyState]

\* the clock reading a record is constructed with (the default_factory of
\* last_updated runs before document_control stamps the record)
ConstructedAt == 0

\* schemas.py ControlDocumentation as the callers construct it: the derived
\* fields at their defaults; implementation_summary varies and stands for
\* the optional text fields (implementation_summary, owner, notes), which
\* the store treats alike
ControlDocumentation(control_id, framework_id, status, summary, evidence) ==
    [control_id |-> control_id,
     framework_id |-> framework_id,
     status |-> status,
     derived_status |-> None,
     derived_sources |-> <<>>,
     implementation_summary |-> summary,
     evidence |-> evidence,
     owner |-> None,
     notes |-> None,
     last_updated |-> ConstructedAt]

\* _load_state: the cached state, or what the file holds
_load_state(m) ==
    IF mem[m].loaded THEN mem[m].state ELSE LoadFrom(state_file(project_path(m)))

\* _save_state that leaves the file as it is (the write held back)
_save_state_Buffered(files, path, state) == files

\* _save_state: the whole state is dumped in JSON mode and written to the
\* manager's state file
_save_state(files, path, state) ==
    [files EXCEPT ![path] = [exists |-> TRUE, controls |-> model_dump(state).controls]]

\* document_control storing the incoming record as it is, whatever the
\* record in place holds
document_control_Overwrite(state, doc, now) ==
    [controls |-> DictSet(state.controls, Key(doc.framework_id, doc.control_id),
                          [doc EXCEPT !.last_updated = now])]

\* document_control that adds the incoming evidence to the evidence in place
document_control_Extend(state, doc, now) ==
    LET key == Key(doc.framework_id, doc.control_id)
        kept == IF key \in DOMAIN state.controls
                THEN [doc EXCEPT !.evidence = state.controls[key].evidence \o @]
                ELSE doc
    IN  [controls |-> DictSet(state.controls, key, [kept EXCEPT !.last_updated = now])]

\* document_control on a loaded state: the upsert, which keeps the existing
\* evidence when the record exists and the incoming evidence list is empty,
\* and stamps the record with the clock reading now
document_control(state, doc, now) ==
    LET key == Key(doc.framework_id, doc.control_id)
        kept == IF key \in DOMAIN state.controls /\ doc.evidence = <<>>
                THEN [doc EXCEPT !.evidence = state.controls[key].evidence]
                ELSE doc
        stored == [kept EXCEPT !.last_updated = now]
    IN  [controls |-> DictSet(state.controls, key, stored)]

\* link_evidence that puts the new item in front
link_evidence_Prepend(state, key, evidence, now) ==
    [controls |-> [state.controls EXCEPT ![key].evidence = <<evidence>> \o @,
                                         ![key].last_updated = now]]

\* link_evidence on a loaded state that has the key: the append, and the
\* stamp
link_evidence(state, key, evidence, now) ==
    [controls |-> [state.controls EXCEPT ![key].evidence = Append(@, evidence),
                                         ![key].last_updated = now]]

\* the number of records whose key starts with prefix and that have the status
CountStatus(state, prefix, status) ==
    Cardinality({k \in DOMAIN state.controls :
                    /\ StartsWith(k, prefix)
                    /\ state.controls[k].status = status})

\* get_summary without the min(100.0, completion) of its last line
get_summary_Unclamped(state, framework_id, total_controls) ==
    LET prefix == framework_id \o ":"
        counts == [st \in ControlStatus |-> CountStatus(state, prefix, st)]
        sum == counts[IMPLEMENTED] + counts[PARTIAL] + counts[PLANNED]
               + counts[NOT_APPLICABLE] + counts[NOT_ADDRESSED]
        applicable_controls == total_controls - counts[NOT_APPLICABLE]
        num == counts[IMPLEMENTED] * 100 + counts[PARTIAL] * 50
    IN  [framework_id |-> framework_id,
         total_controls |-> total_controls,
         implemented |-> counts[IMPLEMENTED],
         partial |-> counts[PARTIAL],
         planned |-> counts[PLANNED],
         not_applicable |-> counts[NOT_APPLICABLE],
         not_addressed |-> total_controls - sum,
         completion_percentage |->
             IF applicable_controls > 0
             THEN [num |-> num, den |-> applicable_controls]
             ELSE [num |-> 100, den |-> 1]]

\* get_summary on a loaded state, for a framework with total_controls > 0.
\* sum(counts.values()) runs over the five counters.  completion_percentage
\* is the exact quotient num / den.
get_summary(state, framework_id, total_controls) ==
    LET prefix == framework_id \o ":"
        counts == [st \in ControlStatus |-> CountStatus(state, prefix, st)]
        sum == counts[IMPLEMENTED] + counts[PARTIAL] + counts[PLANNED]
               + counts[NOT_APPLICABLE] + counts[NOT_ADDRESSED]
        applicable_controls == total_controls - counts[NOT_APPLICABLE]
        num == counts[IMPLEMENTED] * 100 + counts[PARTIAL] * 50
        completion == IF applicable_controls > 0
                      THEN IF num > 100 * applicable_controls
                           THEN [num |-> 100, den |-> 1]
                           ELSE [num |-> num, den |-> applicable_controls]
                      ELSE [num |-> 100, den |-> 1]
    IN  [framework_id |-> framework_id,
         total_controls |-> total_controls,
         implemented |-> counts[IMPLEMENTED],
         partial |-> counts[PARTIAL],
         planned |-> counts[PLANNED],
         not_applicable |-> counts[NOT_APPLICABLE],
         not_addressed |-> total_controls - sum,
         completion_percentage |-> completion]

\* get_control_documentation: state.controls.get(key); found is FALSE where
\* the code returns None
get_control_documentation(state, framework_id, control_id) ==
    LET key == Key(framework_id, control_id)
    IN  IF key \in DOMAIN state.controls
        THEN [found |-> TRUE, doc |-> state.controls[key]]
        ELSE [found |-> FALSE]

\* the keys of state.controls that start with "<framework_id>:"
PrefixedKeys(state, framework_id) ==
    {k \in DOMAIN state.controls : StartsWith(k, framework_id \o ":")}

\* str[n:]
Suffix(str, n) == SubSeq(str, n + 1, Len(str))

\* _get_gaps: the ids of the catalog controls that no key of the framework's
\* prefix names (the control id is the key after the prefix)
_get_gaps(state, framework_id) ==
    LET prefix == framework_id \o ":"
        documented_ids == {Suffix(k, Len(prefix)) : k \in PrefixedKeys(state, framework_id)}
        all_controls == list_controls(framework_id)
    IN  {all_controls[i].id : i \in {j \in DOMAIN all_controls :
                                        all_controls[j].id \notin documented_ids}}

\* export, as the content of the string it returns: the summary (None when
\* the framework has no catalog control), the records under the framework's
\* prefix and the gaps.  The json format carries the JSON dump of each
\* record, the markdown format the fields it prints; evidence is left out
\* unless include_evidence.  The order of the records is the dict's and is
\* not kept.
export(state, format, framework_id, include_evidence, include_gaps) ==
    LET total_controls == Len(list_controls(framework_id))
        keys == PrefixedKeys(state, framework_id)
        shown(doc) ==
            IF format = "json"
            THEN LET j == DumpControl(doc)
                 IN  IF include_evidence THEN j
                     ELSE [f \in DOMAIN j \ {"evidence"} |-> j[f]]
            ELSE [status |-> doc.status,
                  control_id |-> doc.control_id,
                  implementation_summary |-> doc.implementation_summary,
                  owner |-> doc.owner,
                  notes |-> doc.notes,
                  evidence |-> IF include_evidence THEN doc.evidence ELSE <<>>]
    IN  [format |-> format,
         framework_id |-> framework_id,
         summary_none |-> total_controls = 0,
         summary |-> IF total_controls = 0
                     THEN [framework_id |-> framework_id]
                     ELSE get_summary(state, framework_id, total_controls),
         controls |-> {shown(state.controls[k]) : k \in keys},
         gaps |-> IF include_gaps THEN _get_gaps(state, framework_id) ELSE {}]

----------------------------------------------------------------------------
(* The documents and inputs the model draws from.                          *)

\* two controls of the CSF catalog, with their informative references
CsfControls ==
    << [id |-> "PR.AA-01",
        informative_references |-> <<"NIST SP 800-53 Rev. 5: AC-1, AC-2">>],
       [id |-> "PR.DS-01",
        informative_references |-> <<"ISO/IEC 27001:2022: A.8.24",
                                     "SP 800-53 Rev 5 AC-2">>] >>

\* controls of the 800-53 catalog
R53Controls ==
    << [id |-> "AC-1", informative_references |-> <<>>],
       [id |-> "AC-2", informative_references |-> <<>>],
       [id |-> "AC-3", informative_references |-> <<>>],
       [id |-> "AC-4", informative_references |-> <<>>] >>

CsfDoc == [exists |-> TRUE, controls |-> CsfControls]

\* the 800-53 documents: absent, or the first k controls (k = 0 is a
\* document with zero controls)
R53DocChoices ==
    {NoFile} \cup
    {[exists |-> TRUE, controls |-> SubSeq(R53Controls, 1, k)] :
        k \in 0..(IF MaxTargetControls < Len(R53Controls)
                  THEN MaxTargetControls ELSE Len(R53Controls))}

\* the sequences over S of length at most n
SeqsUpTo(S, n) == UNION {[1..k -> S] : k \in 0..n}

\* the triples an explicit CSF -> 800-53 mapping document is made of
MappingTriples ==
    [source_control_id : {"PR.AA-01", "PR.DS-01"},
     target_control_id : {"AC-1", "AC-2"},
     relationship : ControlRelationship]

NoMappingFile == [exists |-> FALSE, mappings |-> <<>>]

MappingDocChoices ==
    {NoMappingFile} \cup
    {[exists |-> TRUE, mappings |-> ms] : ms \in SeqsUpTo(MappingTriples, MaxMappings)}

FrameworkPairs == FrameworkIds \X FrameworkIds

\* schemas.py Evidence; an absent line_range is the empty tuple
Evidence1 == [type |-> "code", path |-> "src/auth.py",
              line_range |-> <<10, 20>>, description |-> "login check"]
Evidence2 == [type |-> "url", path |-> "https://wiki/policy",
              line_range |-> <<>>, description |-> "access policy"]
EvidenceItems == {Evidence1, Evidence2}

\* the control ids the state store is called with
StoreControlIds == {"PR.AA-01", "PR.DS-01"}

NoStateFile == [exists |-> FALSE, controls |-> EmptyDict]

\* the clock readings (datetime.utcnow()) the calls see: one reading where
\* the time plays no part, two where records are compared field by field
Noon == 1
ClockReadings == {Noon, 2}

----------------------------------------------------------------------------
(* Actions.                                                                *)

\* ComplianceStateManager(project_path): a new instance, nothing cached
NewManager(m) ==
    /\ mem' = [mem EXCEPT ![m] = Unloaded]
    /\ result' = [op |-> "__init__", raised |-> None, manager |-> m]
    /\ UNCHANGED <<tasks, fcache, cache, frameworkDocs, mappingDocs, disk>>

\* get_state that writes the new empty state out when there is no file
GetState_Create(m) ==
    LET state == _load_state(m)
    IN  /\ mem' = [mem EXCEPT ![m] = [loaded |-> TRUE, state |-> state]]
        /\ disk' = _save_state(disk, state_file(project_path(m)), state)
        /\ result' = [op |-> "get_state", raised |-> None, manager |-> m,
                      state |-> state]
        /\ UNCHANGED <<tasks, fcache, cache, frameworkDocs, mappingDocs>>

\* manager.get_state()
GetState(m) ==
    LET state == _load_state(m)
    IN  /\ mem' = [mem EXCEPT ![m] = [loaded |-> TRUE, state |-> state]]
        /\ result' = [op |-> "get_state", raised |-> None, manager |-> m,
                      state |-> state]
        /\ UNCHANGED <<tasks, fcache, cache, frameworkDocs, mappingDocs, disk>>

\* manager.document_control(doc), the clock reading now; again tells that
\* the call before it, on the same manager, carried the same doc (same key,
\* status, summary and evidence list)
DocumentControl(m, doc, now) ==
    LET state == _load_state(m)
        key == Key(doc.framework_id, doc.control_id)
        new == document_control(state, doc, now)
    IN  /\ mem' = [mem EXCEPT ![m] = [loaded |-> TRUE, state |-> new]]
        /\ disk' = _save_state(disk, state_file(project_path(m)), new)
        /\ result' = [op |-> "document_control", raised |-> None, manager |-> m,
                      key |-> key, existed |-> key \in DOMAIN state.controls,
                      evidence |-> doc.evidence,
                      status |-> doc.status,
                      implementation_summary |-> doc.implementation_summary,
                      again |-> /\ result.op = "document_control"
                                /\ result.manager = m
                                /\ result.key = key
                                /\ result.status = doc.status
                                /\ result.implementation_summary
                                      = doc.implementation_summary
                                /\ result.evidence = doc.evidence]
        /\ UNCHANGED <<tasks, fcache, cache, frameworkDocs, mappingDocs>>

\* link_evidence that opens a record for a key that has none instead of
\* raising
LinkEvidence_Upsert(m, framework_id, control_id, evidence, now) ==
    LET state == _load_state(m)
        key == Key(framework_id, control_id)
        base == IF key \in DOMAIN state.controls
                THEN state
                ELSE document_control(state,
                        ControlDocumentation(control_id, framework_id,
                                             NOT_ADDRESSED, None, <<>>), now)
        new == link_evidence(base, key, evidence, now)
    IN  /\ Len(base.controls[key].evidence) < MaxEvidence
        /\ mem' = [mem EXCEPT ![m] = [loaded |-> TRUE, state |-> new]]
        /\ disk' = _save_state(disk, state_file(project_path(m)), new)
        /\ result' = [op |-> "link_evidence", raised |-> None,
                      manager |-> m, key |-> key, evidence |-> evidence]
        /\ UNCHANGED <<tasks, fcache, cache, frameworkDocs, mappingDocs>>

\* manager.link_evidence(framework_id, control_id, evidence): ValueError
\* when the key has no record (the state is loaded, nothing is saved)
LinkEvidence(m, framework_id, control_id, evidence, now) ==
    LET state == _load_state(m)
        key == Key(framework_id, control_id)
    IN  IF key \notin DOMAIN state.controls
        THEN /\ mem' = [mem EXCEPT ![m] = [loaded |-> TRUE, state |-> state]]
             /\ result' = [op |-> "link_evidence", raised |-> "ValueError",
                           manager |-> m, key |-> key, evidence |-> evidence]
             /\ UNCHANGED <<tasks, fcache, cache, frameworkDocs, mappingDocs, disk>>
        ELSE /\ Len(state.controls[key].evidence) < MaxEvidence
             /\ LET new == link_evidence(state, key, evidence, now)
                IN  /\ mem' = [mem EXCEPT ![m] = [loaded |-> TRUE, state |-> new]]
                    /\ disk' = _save_state(disk, state_file(project_path(m)), new)
             /\ result' = [op |-> "link_evidence", raised |-> None,
                           manager |-> m, key |-> key, evidence |-> evidence]
             /\ UNCHANGED <<tasks, fcache, cache, frameworkDocs, mappingDocs>>

\* manager.remove_control(framework_id, control_id)
RemoveControl(m, framework_id, control_id) ==
    LET state == _load_state(m)
        key == Key(framework_id, control_id)
    IN  IF key \in DOMAIN state.controls
        THEN LET new == [controls |-> DictDel(state.controls, key)]
             IN  /\ mem' = [mem EXCEPT ![m] = [loaded |-> TRUE, state |-> new]]
                 /\ disk' = _save_state(disk, state_file(project_path(m)), new)
                 /\ result' = [op |-> "remove_control", raised |-> None,
                               manager |-> m, key |-> key, returned |-> TRUE]
                 /\ UNCHANGED <<tasks, fcache, cache, frameworkDocs, mappingDocs>>
        ELSE /\ mem' = [mem EXCEPT ![m] = [loaded |-> TRUE, state |-> state]]
             /\ result' = [op |-> "remove_control", raised |-> None,
                           manager |-> m, key |-> key, returned |-> FALSE]
             /\ UNCHANGED <<tasks, fcache, cache, frameworkDocs, mappingDocs, disk>>

\* manager.clear_state()
ClearState(m) ==
    /\ mem' = [mem EXCEPT ![m] = [loaded |-> TRUE, state |-> EmptyState]]
    /\ disk' = _save_state(disk, state_file(project_path(m)), EmptyState)
    /\ result' = [op |-> "clear_state", raised |-> None, manager |-> m]
    /\ UNCHANGED <<tasks, fcache, cache, frameworkDocs, mappingDocs>>

\* manager.get_summary(framework_id): None when the framework has no
\* catalog control
GetSummary(m, framework_id) ==
    LET state == _load_state(m)
        total_controls == Len(list_controls(framework_id))
    IN  /\ mem' = [mem EXCEPT ![m] = [loaded |-> TRUE, state |-> state]]
        /\ result' = [op |-> "get_summary", raised |-> None, manager |-> m,
                      framework_id |-> framework_id,
                      returned_none |-> total_controls = 0,
                      summary |-> IF total_controls = 0
                                  THEN [framework_id |-> framework_id]
                                  ELSE get_summary(state, framework_id, total_controls)]
        /\ UNCHANGED <<tasks, fcache, cache, frameworkDocs, mappingDocs, disk>>

\* manager.get_control_documentation(framework_id, control_id)
GetControlDocumentation(m, framework_id, control_id) ==
    LET state == _load_state(m)
        got == get_control_documentation(state, framework_id, control_id)
    IN  /\ mem' = [mem EXCEPT ![m] = [loaded |-> TRUE, state |-> state]]
        /\ result' = [op |-> "get_control_documentation", raised |-> None,
                      manager |-> m, framework_id |-> framework_id,
                      control_id |-> control_id, returned |-> got]
        /\ UNCHANGED <<tasks, fcache, cache, frameworkDocs, mappingDocs, disk>>

\* manager.export(format, framework_id, include_evidence, include_gaps)
Export(m, format, framework_id, include_evidence, include_gaps) ==
    LET state == _load_state(m)
    IN  /\ mem' = [mem EXCEPT ![m] = [loaded |-> TRUE, state |-> state]]
        /\ result' = [op |-> "export", raised |-> None, manager |-> m,
                      framework_id |-> framework_id,
                      content |-> export(state, format, framework_id,
                                         include_evidence, include_gaps)]
        /\ UNCHANGED <<tasks, fcache, cache, frameworkDocs, mappingDocs, disk>>

\* FrameworkManager()._load_framework(framework_id): found is FALSE where
\* the code returns None
LoadFramework(framework_id) ==
    LET data == _load_framework(framework_id)
    IN  /\ result' = [op |-> "_load_framework", raised |-> None,
                      framework_id |-> framework_id,
                      found |-> data.exists, data |-> data]
        /\ UNCHANGED <<tasks, fcache, cache, frameworkDocs, mappingDocs, disk, mem>>

\* the tool list_controls: a new FrameworkManager, list_controls
ListControls(framework, function, category) ==
    /\ result' = [op |-> "list_controls", raised |-> None,
                  framework_id |-> framework,
                  function |-> function, category |-> category,
                  controls |-> list_controls_by(framework, function, category)]
    /\ UNCHANGED <<tasks, fcache, cache, frameworkDocs, mappingDocs, disk, mem>>

\* the tool get_control_details: a new FrameworkManager, get_control_details
GetControlDetails(control_id, framework) ==
    /\ result' = [op |-> "get_control_details", raised |-> None,
                  framework_id |-> framework, control_id |-> control_id,
                  details |-> get_control_details(framework, control_id)]
    /\ UNCHANGED <<tasks, fcache, cache, frameworkDocs, mappingDocs, disk, mem>>

\* the tool document_compliance with project_path at its default: a new
\* manager for the project, a ControlDocumentation without evidence,
\* document_control
DocumentCompliance(control_id, status, framework, implementation_summary, now) ==
    LET doc == ControlDocumentation(control_id, framework, status,
                                    implementation_summary, <<>>)
        state == LoadFromDisk
        new == document_control(state, doc, now)
    IN  /\ disk' = _save_state(disk, state_file(ProjectPath), new)
        /\ result' = [op |-> "document_compliance", raised |-> None,
                      key |-> Key(framework, control_id),
                      existed |-> Key(framework, control_id) \in DOMAIN state.controls,
                      evidence |-> doc.evidence]
        /\ UNCHANGED <<tasks, fcache, cache, frameworkDocs, mappingDocs, mem>>

\* FrameworkMapper(): a new mapper instance in place of the one in use,
\* nothing cached
NewMapper ==
    /\ cache' = EmptyDict
    /\ result' = [op |-> "FrameworkMapper", raised |-> None]
    /\ UNCHANGED <<tasks, fcache, frameworkDocs, mappingDocs, disk, mem>>

\* mapper._load_mappings(source_framework, target_framework) on the mapper
\* in use: the list is returned and kept in the cache under the pair's key
LoadMappings(source_framework, target_framework) ==
    LET mappings == _load_mappings(cache, source_framework, target_framework)
    IN  /\ cache' = DictSet(cache, cache_key(source_framework, target_framework),
                            mappings)
        /\ result' = [op |-> "_load_mappings", raised |-> None,
                      source_framework |-> source_framework,
                      target_framework |-> target_framework,
                      mappings |-> mappings]
        /\ UNCHANGED <<tasks, fcache, frameworkDocs, mappingDocs, disk, mem>>

\* A request for _load_framework(framework_id) enters the shared manager
BeginLoadFramework(t, framework_id) ==
    /\ tasks[t].pc = "idle"
    /\ tasks' = [tasks EXCEPT ![t] =
                    [Idle EXCEPT !.pc = "check", !.op = "_load_framework",
                                 !.source = framework_id]]
    /\ result' = [op |-> "request", raised |-> None, task |-> t]
    /\ UNCHANGED <<cache, fcache, frameworkDocs, mappingDocs, disk, mem>>

\* A request for _load_mappings(source_framework, target_framework) enters
\* the mapper that holds the shared manager
BeginLoadMappings(t, source_framework, target_framework) ==
    /\ tasks[t].pc = "idle"
    /\ tasks' = [tasks EXCEPT ![t] =
                    [Idle EXCEPT !.pc = "check", !.op = "_load_mappings",
                                 !.source = source_framework,
                                 !.target = target_framework]]
    /\ result' = [op |-> "request", raised |-> None, task |-> t]
    /\ UNCHANGED <<cache, fcache, frameworkDocs, mappingDocs, disk, mem>>

\* _load_framework up to the read: a cached document is returned, an
\* unmapped id or an absent file gives None, else the file is to be read
CheckFramework(t) ==
    LET f == tasks[t].source
    IN  /\ tasks[t].pc = "check"
        /\ tasks[t].op = "_load_framework"
        /\ tasks' = [tasks EXCEPT ![t] =
                IF f \in DOMAIN fcache
                THEN [@ EXCEPT !.pc = "done", !.found = TRUE, !.returned = fcache[f]]
                ELSE IF f \notin file_map \/ ~frameworkDocs[f].exists
                THEN [@ EXCEPT !.pc = "done", !.found = FALSE]
                ELSE [@ EXCEPT !.pc = "read", !.missed = TRUE]]
        /\ result' = [op |-> "step", raised |-> None, task |-> t]
        /\ UNCHANGED <<cache, fcache, frameworkDocs, mappingDocs, disk, mem>>

\* data = json.load(f)
ReadFramework(t) ==
    /\ tasks[t].pc = "read"
    /\ tasks[t].op = "_load_framework"
    /\ tasks' = [tasks EXCEPT ![t] =
                    [@ EXCEPT !.pc = "store", !.local = frameworkDocs[tasks[t].source]]]
    /\ result' = [op |-> "step", raised |-> None, task |-> t]
    /\ UNCHANGED <<cache, fcache, frameworkDocs, mappingDocs, disk, mem>>

\* self._cache[framework_id] = data; return data
StoreFramework(t) ==
    /\ tasks[t].pc = "store"
    /\ tasks[t].op = "_load_framework"
    /\ fcache' = DictSet(fcache, tasks[t].source, tasks[t].local)
    /\ tasks' = [tasks EXCEPT ![t] =
                    [@ EXCEPT !.pc = "done", !.found = TRUE, !.returned = tasks[t].local]]
    /\ result' = [op |-> "step", raised |-> None, task |-> t]
    /\ UNCHANGED <<cache, frameworkDocs, mappingDocs, disk, mem>>

\* _load_mappings up to the read: a cached list is returned; else the
\* explicit document is opened (mappings = [], its triples to be parsed) or
\* the mappings are to be synthesized
CheckMappings(t) ==
    LET key == cache_key(tasks[t].source, tasks[t].target)
        doc == mappingDocs[<<tasks[t].source, tasks[t].target>>]
    IN  /\ tasks[t].pc = "check"
        /\ tasks[t].op = "_load_mappings"
        /\ tasks' = [tasks EXCEPT ![t] =
                IF key \in DOMAIN cache
                THEN [@ EXCEPT !.pc = "done", !.found = TRUE, !.returned = cache[key]]
                ELSE IF doc.exists
                THEN [@ EXCEPT !.pc = "parse", !.missed = TRUE, !.local = <<>>,
                               !.items = doc.mappings]
                ELSE [@ EXCEPT !.pc = "generate", !.missed = TRUE]]
        /\ result' = [op |-> "step", raised |-> None, task |-> t]
        /\ UNCHANGED <<cache, fcache, frameworkDocs, mappingDocs, disk, mem>>

\* one pass of the loop over data.get("mappings", []): a ControlMapping is
\* appended to the local list
ParseMapping(t) ==
    LET m == Head(tasks[t].items)
        mappings == Append(tasks[t].local,
                       ControlMapping(m.source_control_id, tasks[t].source,
                                      m.target_control_id, tasks[t].target,
                                      rel_map(m.relationship)))
    IN  /\ tasks[t].pc = "parse"
        /\ tasks[t].items # <<>>
        /\ tasks' = [tasks EXCEPT ![t] =
                        [@ EXCEPT !.local = mappings, !.items = Tail(tasks[t].items)]]
        /\ cache' = AfterAppend(cache, cache_key(tasks[t].source, tasks[t].target),
                                mappings)
        /\ result' = [op |-> "step", raised |-> None, task |-> t]
        /\ UNCHANGED <<fcache, frameworkDocs, mappingDocs, disk, mem>>

\* mappings = await self._generate_mappings_from_references(...): the
\* shared manager loads the source catalog on the way and caches it
GenerateMappings(t) ==
    LET f == tasks[t].source
    IN  /\ tasks[t].pc = "generate"
        /\ tasks' = [tasks EXCEPT ![t] =
                [@ EXCEPT !.pc = "store",
                          !.local = _generate_mappings_from_references(
                                        tasks[t].source, tasks[t].target)]]
        /\ fcache' = IF f \in file_map /\ frameworkDocs[f].exists
                      THEN DictSet(fcache, f, frameworkDocs[f])
                      ELSE fcache
        /\ result' = [op |-> "step", raised |-> None, task |-> t]
        /\ UNCHANGED <<cache, frameworkDocs, mappingDocs, disk, mem>>

\* self._mappings_cache[cache_key] = mappings; return mappings: after the
\* loop over the document's triples, or after the synthesis
StoreMappings(t) ==
    /\ tasks[t].op = "_load_mappings"
    /\ \/ tasks[t].pc = "store"
       \/ tasks[t].pc = "parse" /\ tasks[t].items = <<>>
    /\ cache' = DictSet(cache, cache_key(tasks[t].source, tasks[t].target),
                        tasks[t].local)
    /\ tasks' = [tasks EXCEPT ![t] =
                    [@ EXCEPT !.pc = "done", !.found = TRUE, !.returned = tasks[t].local]]
    /\ result' = [op |-> "step", raised |-> None, task |-> t]
    /\ UNCHANGED <<fcache, frameworkDocs, mappingDocs, disk, mem>>

\* the tool get_framework_gap: a new mapper, analyze_gap on the project
AnalyzeGap(current_framework, target_framework, use_documented_state) ==
    /\ result' = analyze_gap(current_framework, target_framework,
                             use_documented_state)
    /\ UNCHANGED <<tasks, fcache, cache, frameworkDocs, mappingDocs, disk, mem>>

----------------------------------------------------------------------------
(* Specifications.                                                         *)

\* what every specification starts from: a project without state file
InitProject ==
    /\ disk = [path \in {state_file(p) : p \in ProjectPaths} |-> NoStateFile]
    /\ mem = [m \in Instances |-> Unloaded]
    /\ cache = EmptyDict
    /\ fcache = EmptyDict
    /\ tasks = [t \in Tasks |-> Idle]
    /\ result = [op |-> "none", raised |-> None]

\* the statuses the evidence calls are made with (the store treats the
\* status as one more field of the record)
StoreStatuses == {IMPLEMENTED, PLANNED}

\* the status and implementation_summary the calls of the evidence runs
\* carry: two records' worth of fields that differ in both
StoreFields == {<<IMPLEMENTED, None>>, <<PLANNED, "reviewed">>}

\* The state store: both catalogs installed, one manager at a time
Init ==
    /\ InitProject
    /\ frameworkDocs = [f \in file_map |->
                          IF f = CSF THEN CsfDoc
                          ELSE [exists |-> TRUE, controls |-> R53Controls]]
    /\ mappingDocs = [p \in FrameworkPairs |-> NoMappingFile]

Next ==
    \E m \in Managers :
        \/ NewManager(m)
        \/ GetState(m)
        \/ \E c \in StoreControlIds, f \in StoreFields,
              ev \in SeqsUpTo(EvidenceItems, MaxDocEvidence) :
                DocumentControl(m, ControlDocumentation(c, CSF, f[1], f[2], ev), Noon)
        \/ \E c \in StoreControlIds, e \in EvidenceItems :
                LinkEvidence(m, CSF, c, e, Noon)
        \/ \E c \in StoreControlIds : RemoveControl(m, CSF, c)
        \/ ClearState(m)
        \/ \E f \in FrameworkIds : GetSummary(m, f)

Spec == Init /\ [][Next]_vars

\* The state store with a running clock: the mutations of one manager,
\* each at one of two clock readings, so that records differ in last_updated
NextRecord ==
    \E m \in Managers :
        \/ \E c \in StoreControlIds, st \in StoreStatuses,
              ev \in SeqsUpTo(EvidenceItems, MaxDocEvidence), now \in ClockReadings :
                DocumentControl(m, ControlDocumentation(c, CSF, st, None, ev), now)
        \/ \E c \in StoreControlIds, e \in EvidenceItems, now \in ClockReadings :
                LinkEvidence(m, CSF, c, e, now)
        \/ \E c \in StoreControlIds : RemoveControl(m, CSF, c)
        \/ ClearState(m)

SpecRecord == Init /\ [][NextRecord]_vars

\* the CSF catalog documents of the summary runs: the whole catalog, the
\* catalog after PR.DS-01 was dropped from it, and a catalog without controls
CsfDocChoices ==
    {[exists |-> TRUE, controls |-> SubSeq(CsfControls, 1, k)] : k \in 0..Len(CsfControls)}

\* Summaries: records of every status under the two CSF control ids, against
\* a CSF catalog that holds both ids, one of them, or none
InitSummary ==
    /\ InitProject
    /\ frameworkDocs \in {[f \in file_map |->
                              IF f = CSF THEN d
                              ELSE [exists |-> TRUE, controls |-> R53Controls]] :
                            d \in CsfDocChoices}
    /\ mappingDocs = [p \in FrameworkPairs |-> NoMappingFile]

NextSummary ==
    \E m \in Managers :
        \/ \E c \in StoreControlIds, st \in ControlStatus :
                DocumentControl(m, ControlDocumentation(c, CSF, st, None, <<>>), Noon)
        \/ \E c \in StoreControlIds : RemoveControl(m, CSF, c)
        \/ \E f \in {CSF, R53} : GetSummary(m, f)

SpecSummary == InitSummary /\ [][NextSummary]_vars

\* Gap analysis: a CSF catalog, some 800-53 catalog, some explicit mapping
\* document (or none), the project documented through the tool
InitGap ==
    /\ InitProject
    /\ frameworkDocs \in {[f \in file_map |-> IF f = CSF THEN CsfDoc ELSE d] :
                            d \in R53DocChoices}
    /\ mappingDocs \in {[p \in FrameworkPairs |->
                            IF p = <<CSF, R53>> THEN d ELSE NoMappingFile] :
                          d \in MappingDocChoices}

\* the statuses documented in the gap runs: the two that count as
\* implemented and one that does not
GapStatuses == {IMPLEMENTED, NOT_APPLICABLE, PARTIAL}

NextGap ==
    \/ \E c \in StoreControlIds, st \in GapStatuses :
            DocumentCompliance(c, st, CSF, None, Noon)
    \/ \E mode \in BOOLEAN : AnalyzeGap(CSF, R53, mode)

SpecGap == InitGap /\ [][NextGap]_vars

\* Gap analysis between known, unknown and not installed frameworks: each
\* catalog installed or not, an explicit mapping document (or none) for the
\* pairs CSF -> 800-53 and unknown -> 800-53, records documented under the
\* CSF id and under the unknown id
UnknownControlId == "A.5.15"

CsfToR53Doc ==
    [exists |-> TRUE,
     mappings |-> << [source_control_id |-> "PR.AA-01", target_control_id |-> "AC-1",
                      relationship |-> "equivalent"] >>]

UnknownToR53Doc ==
    [exists |-> TRUE,
     mappings |-> << [source_control_id |-> UnknownControlId,
                      target_control_id |-> "AC-1",
                      relationship |-> "equivalent"] >>]

InitUnknown ==
    /\ InitProject
    /\ frameworkDocs \in {[f \in file_map |-> IF f = CSF THEN c ELSE d] :
                            c \in {CsfDoc, NoFile}, d \in R53DocChoices}
    /\ mappingDocs \in {[p \in FrameworkPairs |->
                            IF p = <<CSF, R53>> THEN a
                            ELSE IF p = <<UnknownFw, R53>> THEN b
                            ELSE NoMappingFile] :
                          a \in {NoMappingFile, CsfToR53Doc},
                          b \in {NoMappingFile, UnknownToR53Doc}}

NextUnknown ==
    \/ \E st \in {IMPLEMENTED, PLANNED} :
            \/ DocumentCompliance("PR.AA-01", st, CSF, None, Noon)
            \/ DocumentCompliance(UnknownControlId, st, UnknownFw, None, Noon)
    \/ \E cur \in FrameworkIds, tgt \in FrameworkIds, mode \in BOOLEAN :
            AnalyzeGap(cur, tgt, mode)

SpecUnknown == InitUnknown /\ [][NextUnknown]_vars

\* Two projects: a manager of the default project and a manager of the
\* other project, their reads and mutations in any order
NextProjects ==
    \E m \in {"m1", "m3"} :
        \/ NewManager(m)
        \/ GetState(m)
        \/ \E c \in StoreControlIds :
                DocumentControl(m, ControlDocumentation(c, CSF, IMPLEMENTED, None, <<>>), Noon)
        \/ LinkEvidence(m, CSF, "PR.AA-01", Evidence1, Noon)
        \/ \E c \in StoreControlIds : RemoveControl(m, CSF, c)
        \/ ClearState(m)
        \/ GetSummary(m, CSF)

SpecProjects == Init /\ [][NextProjects]_vars

\* Two managers of the default project, their calls one after the other:
\* each loads the state on its first access and keeps it
NextWriters ==
    \E m \in {"m1", "m2"} :
        \/ GetState(m)
        \/ \E c \in StoreControlIds :
                DocumentControl(m, ControlDocumentation(c, CSF, IMPLEMENTED, None, <<>>), Noon)
        \/ LinkEvidence(m, CSF, "PR.AA-01", Evidence1, Noon)

SpecWriters == Init /\ [][NextWriters]_vars

\* the formats export is called with
ExportFormats == {"json", "markdown"}

\* Reads among mutations: one manager at a time of the default project, the
\* reads of the store and the gap analysis over the project's file
NextReads ==
    \/ \E m \in Managers :
        \/ NewManager(m)
        \/ GetState(m)
        \/ \E c \in StoreControlIds, f \in StoreFields,
              ev \in SeqsUpTo(EvidenceItems, MaxDocEvidence) :
                DocumentControl(m, ControlDocumentation(c, CSF, f[1], f[2], ev), Noon)
        \/ \E c \in StoreControlIds : RemoveControl(m, CSF, c)
        \/ \E c \in StoreControlIds : GetControlDocumentation(m, CSF, c)
        \/ GetSummary(m, CSF)
        \/ \E format \in ExportFormats, include_evidence \in BOOLEAN,
              include_gaps \in BOOLEAN :
                Export(m, format, CSF, include_evidence, include_gaps)
    \/ \E mode \in BOOLEAN : AnalyzeGap(CSF, R53, mode)

SpecReads == Init /\ [][NextReads]_vars

\* The catalog documents of the catalog runs, one per accepted shape, each
\* with two controls of one category and a control of another.
\* nested functions -> categories -> subcategories
NestedDoc ==
    [exists |-> TRUE,
     functions |-> <<
        [id |-> "PR",
         categories |-> <<
            [id |-> "PR.AC",
             subcategories |-> << [id |-> "PR.AC-01"], [id |-> "PR.AC-02"] >>],
            [id |-> "PR.DS",
             subcategories |-> << [id |-> "PR.DS-01"] >>] >>] >>]

\* flat lists of functions, categories and subcategories
FlatDoc ==
    [exists |-> TRUE,
     functions |-> << [id |-> "PR"] >>,
     categories |-> << [id |-> "PR.AC", function_id |-> "PR"],
                       [id |-> "PR.DS", function_id |-> "PR"] >>,
     subcategories |-> << [id |-> "PR.AC-01", category_id |-> "PR.AC"],
                          [id |-> "PR.AC-02", category_id |-> "PR.AC"],
                          [id |-> "PR.DS-01", category_id |-> "PR.DS"] >>]

\* controls with their family
FamilyDoc ==
    [exists |-> TRUE,
     controls |-> << [id |-> "AC-1", family_id |-> "AC"],
                     [id |-> "AC-2", family_id |-> "AC"],
                     [id |-> "SC-7", family_id |-> "SC"] >>]

\* a document of flat elements
ElementsDoc(elements) ==
    [exists |-> TRUE, response |-> [elements |-> [elements |-> elements]]]

Element(type, identifier) ==
    [element_type |-> type, element_identifier |-> identifier]

\* the CSF as flat elements; PRDS01 is an identifier without separator
CsfElementsDoc ==
    ElementsDoc(<< Element("function", "PR"),
                   Element("category", "PR.AC"),
                   Element("category", "PR.DS"),
                   Element("subcategory", "PR.AC-01"),
                   Element("subcategory", "PR.AC-02"),
                   Element("subcategory", "PR.DS-01"),
                   Element("subcategory", "PRDS01") >>)

\* 800-53 as flat elements; SC7 is an identifier without separator
R53ElementsDoc ==
    ElementsDoc(<< Element("family", "AC"),
                   Element("family", "SC"),
                   Element("control", "AC-1"),
                   Element("control", "AC-2"),
                   Element("control", "SC-7"),
                   Element("control", "SC7") >>)

\* documents that hold zero controls, and the empty object
ZeroControlDocs ==
    {[exists |-> TRUE, controls |-> <<>>],
     [exists |-> TRUE, subcategories |-> <<>>],
     ElementsDoc(<<>>),
     [exists |-> TRUE]}

\* the catalog each framework id may be backed by
CatalogDocChoices ==
    [f \in file_map |->
        {NoFile, NestedDoc, FlatDoc, FamilyDoc} \cup ZeroControlDocs
            \cup {IF f = CSF THEN CsfElementsDoc ELSE R53ElementsDoc}]

\* the ids, functions and categories the catalog is asked for
CatalogControlIds ==
    {"PR.AC-01", "PR.DS-01", "PRDS01", "AC-1", "SC-7", "SC7", "XX-9"}
CatalogFilters == {None, "", "PR", "PR.AC", "PR.DS", "AC", "SC"}

\* Catalogs: each installed framework backed by a document of one of the
\* shapes, by a document without controls or by no document
InitCatalog ==
    /\ InitProject
    /\ frameworkDocs \in {[f \in file_map |-> IF f = CSF THEN c ELSE d] :
                            c \in CatalogDocChoices[CSF], d \in CatalogDocChoices[R53]}
    /\ mappingDocs = [p \in FrameworkPairs |-> NoMappingFile]

NextCatalog ==
    \/ \E f \in FrameworkIds : LoadFramework(f)
    \/ \E f \in FrameworkIds, function \in {None, "PR", "AC"}, category \in CatalogFilters :
            ListControls(f, function, category)
    \/ \E f \in FrameworkIds, c \in CatalogControlIds : GetControlDetails(c, f)

SpecCatalog == InitCatalog /\ [][NextCatalog]_vars

\* Concurrent first loads: requests for the CSF catalog (installed or not),
\* for an unknown framework and for the mappings CSF -> 800-53 (explicit or
\* synthesized) take their steps in any order on one manager and its mapper
TwoTriplesDoc ==
    [exists |-> TRUE,
     mappings |-> << [source_control_id |-> "PR.AA-01", target_control_id |-> "AC-1",
                      relationship |-> "subset"],
                     [source_control_id |-> "PR.DS-01", target_control_id |-> "AC-2",
                      relationship |-> "equivalent"] >>]

InitLoads ==
    /\ InitProject
    /\ frameworkDocs \in {[f \in file_map |->
                              IF f = CSF THEN c
                              ELSE [exists |-> TRUE, controls |-> R53Controls]] :
                            c \in {CsfDoc, NoFile}}
    /\ mappingDocs \in {[p \in FrameworkPairs |->
                            IF p = <<CSF, R53>> THEN d ELSE NoMappingFile] :
                          d \in {NoMappingFile, TwoTriplesDoc}}

NextLoads ==
    \E t \in Tasks :
        \/ \E f \in {CSF, UnknownFw} : BeginLoadFramework(t, f)
        \/ BeginLoadMappings(t, CSF, R53)
        \/ CheckFramework(t)
        \/ ReadFramework(t)
        \/ StoreFramework(t)
        \/ CheckMappings(t)
        \/ ParseMapping(t)
        \/ GenerateMappings(t)
        \/ StoreMappings(t)

SpecLoads == InitLoads /\ [][NextLoads]_vars

\* the (framework_id, control_id) pairs of the key runs: a catalog pair and
\* two pairs whose identifiers hold a ':'
KeyPairs ==
    {<<CSF, "PR.AA-01">>, <<CSF, "x:PR.AA-01">>, <<CSF \o ":x", "PR.AA-01">>}

\* Composite keys: records documented under the pairs, then looked up and
\* selected per framework
NextKeys ==
    \/ \E m \in Managers :
        \/ \E p \in KeyPairs, st \in StoreStatuses :
                DocumentControl(m, ControlDocumentation(p[2], p[1], st, None, <<>>), Noon)
        \/ \E p \in KeyPairs : RemoveControl(m, p[1], p[2])
        \/ \E p \in KeyPairs : GetControlDocumentation(m, p[1], p[2])
        \/ GetSummary(m, CSF)
        \/ \E format \in ExportFormats : Export(m, format, CSF, TRUE, TRUE)
    \/ AnalyzeGap(CSF, R53, TRUE)

SpecKeys == Init /\ [][NextKeys]_vars

----------------------------------------------------------------------------
(* Vocabulary of the properties of analyze_gap.  They read the returned    *)
(* GapAnalysisResult and the inputs of the call: the mappings, the target  *)
(* catalog and the implemented set.                                        *)

GapReturned == result.op = "analyze_gap"

\* the ids of the target catalog of the returned analysis
TargetIds == {c.id : c \in Range(list_controls(result.target_framework))}

\* the source controls mapped to target t with a relationship in rels
MappedSources(t, rels) ==
    {m.source_control_id :
        m \in {x \in Range(result.mappings) :
                  x.target_control_id = t /\ x.relationship \in rels}}

\* the entries of a bucket that name control t
EntriesFor(bucket, t) == {i \in DOMAIN bucket : bucket[i].control_id = t}

InCovered(t) == EntriesFor(result.already_covered, t) # {}
InPartial(t) == EntriesFor(result.partially_covered, t) # {}
InGaps(t) == EntriesFor(result.gaps, t) # {}

Implemented(S) == S \cap result.current_implemented
Unimplemented(S) == S \ result.current_implemented

\* C1: a target control with equivalent/broader mappings whose sources are
\* all implemented is fully covered, covered_by being exactly those sources,
\* whatever narrower or related mappings it has; when only some of them are
\* implemented it is partially covered, covered_by being the implemented
\* and missing_coverage the unimplemented equivalent/broader sources.
C1_EqBroaderCoverage ==
    GapReturned =>
        \A t \in TargetIds :
            LET strong == MappedSources(t, {EQUIVALENT, BROADER})
            IN  /\ (strong # {} /\ Unimplemented(strong) = {}) =>
                      \E i \in DOMAIN result.already_covered :
                          /\ result.already_covered[i].control_id = t
                          /\ result.already_covered[i].covered_by = strong
                /\ (Implemented(strong) # {} /\ Unimplemented(strong) # {}) =>
                      \E i \in DOMAIN result.partially_covered :
                          /\ result.partially_covered[i].control_id = t
                          /\ result.partially_covered[i].covered_by = Implemented(strong)
                          /\ result.partially_covered[i].missing_coverage
                                = Unimplemented(strong)

\* C1 witness: from the documented state, a control with an implemented
\* equivalent source and an unimplemented narrower source is fully covered
C1_Witness ==
    /\ GapReturned
    /\ result.use_documented_state
    /\ \E t \in TargetIds :
          /\ Implemented(MappedSources(t, {EQUIVALENT})) # {}
          /\ Unimplemented(MappedSources(t, {NARROWER})) # {}
          /\ InCovered(t)

\* C2: narrower evidence never yields full coverage.  A control without an
\* implemented equivalent/broader source and with an implemented narrower
\* source is partially covered, missing_coverage being the unimplemented
\* narrower sources; and a control is fully covered only if it has an
\* equivalent/broader mapping and all such sources are implemented.
C2_NarrowerNeverFull ==
    GapReturned =>
        /\ \A t \in TargetIds :
              LET narrow == MappedSources(t, {NARROWER})
              IN  (/\ Implemented(MappedSources(t, {EQUIVALENT, BROADER})) = {}
                   /\ Implemented(narrow) # {}) =>
                      /\ ~InCovered(t)
                      /\ \E i \in DOMAIN result.partially_covered :
                            /\ result.partially_covered[i].control_id = t
                            /\ result.partially_covered[i].missing_coverage
                                  = Unimplemented(narrow)
        /\ \A i \in DOMAIN result.already_covered :
              LET strong == MappedSources(result.already_covered[i].control_id,
                                          {EQUIVALENT, BROADER})
              IN  strong # {} /\ Unimplemented(strong) = {}

\* C2 witness: a control mapped only through narrower sources, all of them
\* implemented, is partially and not fully covered
C2_Witness ==
    /\ GapReturned
    /\ \E t \in TargetIds :
          /\ MappedSources(t, {EQUIVALENT, BROADER, RELATED}) = {}
          /\ MappedSources(t, {NARROWER}) # {}
          /\ Unimplemented(MappedSources(t, {NARROWER})) = {}
          /\ InPartial(t)
          /\ ~InCovered(t)

\* C3: a mapped control without any implemented equivalent, broader or
\* narrower source is a gap: with a related mapping the reason is "only
\* related mappings" and mapped_from lists the related sources, implemented
\* or not; without one the reason lists the mapped source controls, all of
\* them unimplemented.
C3_UncoveredIsGap ==
    GapReturned =>
        \A t \in TargetIds :
            LET all == MappedSources(t, ControlRelationship)
                rel == MappedSources(t, {RELATED})
            IN  (/\ all # {}
                 /\ Implemented(MappedSources(t, {EQUIVALENT, BROADER, NARROWER})) = {})
                =>
                 /\ ~InCovered(t) /\ ~InPartial(t)
                 /\ \E i \in DOMAIN result.gaps :
                       /\ result.gaps[i].control_id = t
                       /\ IF rel # {}
                          THEN /\ result.gaps[i].reason =
                                    "Only related mappings exist; needs direct assessment in target framework"
                               /\ result.gaps[i].mapped_from = rel
                          ELSE /\ result.gaps[i].reason = "Mapped controls not implemented"
                               /\ result.gaps[i].reason_controls = all
                               /\ Implemented(all) = {}

\* C3 witness: a control whose related source is implemented, and which
\* also has an unimplemented equivalent source, is reported as a gap
C3_Witness ==
    /\ GapReturned
    /\ \E t \in TargetIds :
          /\ Implemented(MappedSources(t, {RELATED})) # {}
          /\ Unimplemented(MappedSources(t, {EQUIVALENT})) # {}
          /\ InGaps(t)

\* C4: a target control that no mapping names is a gap with the reason "No
\* mapping from current framework", in both modes, whatever is documented.
C4_NoMappingIsGap ==
    GapReturned =>
        \A t \in TargetIds :
            MappedSources(t, ControlRelationship) = {} =>
                /\ ~InCovered(t) /\ ~InPartial(t)
                /\ \E i \in DOMAIN result.gaps :
                      /\ result.gaps[i].control_id = t
                      /\ result.gaps[i].reason = "No mapping from current framework"

\* C4 witness: an unmapped control is a gap in an analysis in which the
\* other mappings cover a control from implemented sources
C4_Witness ==
    /\ GapReturned
    /\ result.current_implemented # {}
    /\ Len(result.already_covered) > 0
    /\ \E t \in TargetIds : MappedSources(t, ControlRelationship) = {} /\ InGaps(t)

\* C5: every control of the target catalog is in exactly one bucket,
\* exactly once; no entry names a control outside the catalog; the summary
\* counts add up to total_target_controls.
C5_ExactlyOneBucket ==
    GapReturned =>
        /\ \A t \in TargetIds :
              Cardinality(EntriesFor(result.already_covered, t))
              + Cardinality(EntriesFor(result.partially_covered, t))
              + Cardinality(EntriesFor(result.gaps, t)) = 1
        /\ \A i \in DOMAIN result.already_covered :
              result.already_covered[i].control_id \in TargetIds
        /\ \A i \in DOMAIN result.partially_covered :
              result.partially_covered[i].control_id \in TargetIds
        /\ \A i \in DOMAIN result.gaps : result.gaps[i].control_id \in TargetIds
        /\ result.summary.fully_covered = Len(result.already_covered)
        /\ result.summary.partially_covered = Len(result.partially_covered)
        /\ result.summary.gaps = Len(result.gaps)
        /\ result.summary.total_target_controls = Cardinality(TargetIds)
        /\ result.summary.fully_covered + result.summary.partially_covered
              + result.summary.gaps = result.summary.total_target_controls

\* C5 witness: an analysis with an equivalent mapping from an implemented
\* source to an id outside the target catalog (which enters no bucket) and
\* a partially covered control of the catalog
C5_Witness ==
    /\ GapReturned
    /\ \E m \in Range(result.mappings) :
          /\ m.target_control_id \notin TargetIds
          /\ m.relationship = EQUIVALENT
          /\ m.source_control_id \in result.current_implemented
    /\ Len(result.partially_covered) > 0

\* the records of the persisted state document
PersistedRecords == {LoadFromDisk.controls[k] : k \in DOMAIN LoadFromDisk.controls}

\* C6: with use_documented_state the implemented set is exactly the control
\* ids of the persisted records of the current framework whose status is
\* implemented or not_applicable; without it, exactly the ids of the
\* current framework's catalog, whatever is documented.
C6_ImplementedSet ==
    GapReturned =>
        result.current_implemented =
            IF result.use_documented_state
            THEN {d.control_id :
                    d \in {r \in PersistedRecords :
                              /\ r.framework_id = result.current_framework
                              /\ r.status \in {IMPLEMENTED, NOT_APPLICABLE}}}
            ELSE {c.id : c \in Range(list_controls(result.current_framework))}

\* C6 witness: documented mode with one not_applicable record and one
\* record of another status; only the first is in the implemented set
C6_Witness ==
    /\ GapReturned
    /\ result.use_documented_state
    /\ \E a, b \in PersistedRecords :
          /\ a.status = NOT_APPLICABLE
          /\ b.status \in {PARTIAL, PLANNED, NOT_ADDRESSED}
          /\ a.framework_id = result.current_framework
          /\ b.framework_id = result.current_framework
          /\ result.current_implemented = {a.control_id}

\* C7: coverage_percentage (in tenths of a percent) is
\* (fully + 0.5 * partially) / total * 100 rounded to one decimal, that is
\* an integer number of tenths at most half a tenth away from the exact
\* value; it is within [0, 100]; it is 50.0 for a two-control target with
\* one control fully covered and one gap.
C7_CoveragePercentage ==
    GapReturned =>
        LET f == Len(result.already_covered)
            p == Len(result.partially_covered)
            g == Len(result.gaps)
            total == Cardinality(TargetIds)
            v == result.summary.coverage_percentage
            \* v / 10 - (f + p / 2) / total * 100, times 2 * total * 10
            diff == 2 * total * v - (2 * f + p) * 1000
        IN  /\ v \in 0..1000
            /\ total > 0 => (diff <= total /\ -diff <= total)
            /\ (total = 2 /\ f = 1 /\ g = 1) => v = 500

\* C7 witness: a three-control target with one partially covered control and
\* two gaps, whose exact percentage 16.66.. is rounded to 16.7
C7_Witness ==
    /\ GapReturned
    /\ Cardinality(TargetIds) = 3
    /\ Len(result.already_covered) = 0
    /\ Len(result.partially_covered) = 1
    /\ result.summary.coverage_percentage = 167

\* a framework id without catalog: unmapped, or its document not installed
UnknownFramework(f) == f \notin file_map \/ ~frameworkDocs[f].exists

\* a framework without catalog controls
NoCatalogControls(f) == UnknownFramework(f) \/ frameworkDocs[f].controls = <<>>

\* the result is well-formed and empty: no entry, every count and the
\* coverage 0
EmptyResult ==
    /\ result.already_covered = <<>>
    /\ result.partially_covered = <<>>
    /\ result.gaps = <<>>
    /\ result.summary.total_target_controls = 0
    /\ result.summary.fully_covered = 0
    /\ result.summary.partially_covered = 0
    /\ result.summary.gaps = 0
    /\ result.summary.coverage_percentage = 0

\* every control of the target catalog is reported as a gap
AllTargetsAreGaps ==
    /\ result.already_covered = <<>>
    /\ result.partially_covered = <<>>
    /\ \A t \in TargetIds : InGaps(t)

\* C8 as claimed: analyze_gap does not raise for unknown framework ids; an
\* unknown target or a target with zero controls yields the empty
\* well-formed result; an unknown current framework yields empty mapping
\* and implemented sets, so every target control is a gap.
C8_AsClaimed ==
    GapReturned =>
        /\ result.raised = None
        /\ NoCatalogControls(result.target_framework) => EmptyResult
        /\ UnknownFramework(result.current_framework) =>
              /\ result.mappings = <<>>
              /\ result.current_implemented = {}
              /\ AllTargetsAreGaps

\* C8 amended: analyze_gap does not raise for unknown framework ids; an
\* unknown target or a target with zero controls yields the empty
\* well-formed result; an unknown current framework for whose pair no
\* explicit mapping document exists yields an empty mapping set, so every
\* target control is a gap, and its implemented set is empty in the
\* hypothetical mode (in the documented mode it holds the implemented and
\* not_applicable records stored under that id).
C8_UnknownFrameworks ==
    GapReturned =>
        /\ result.raised = None
        /\ NoCatalogControls(result.target_framework) => EmptyResult
        /\ (/\ UnknownFramework(result.current_framework)
            /\ ~mappingDocs[<<result.current_framework,
                              result.target_framework>>].exists) =>
              /\ result.mappings = <<>>
              /\ ~result.use_documented_state => result.current_implemented = {}
              /\ AllTargetsAreGaps

\* C8 witness: the current framework is unknown and has no mapping document
\* for the pair, records are documented under its id, the target catalog
\* has controls: the implemented set is not empty and every target control
\* is a gap
C8_Witness ==
    /\ GapReturned
    /\ UnknownFramework(result.current_framework)
    /\ ~mappingDocs[<<result.current_framework, result.target_framework>>].exists
    /\ result.current_implemented # {}
    /\ TargetIds # {}
    /\ AllTargetsAreGaps

\* Mapping resolution: one mapper instance asked for both directions of the
\* pair CSF / 800-53, with an explicit CSF -> 800-53 document (or none) whose
\* relationship strings run over the synonym table, an unrecognized string
\* and a missing key, and an explicit 800-53 -> CSF document (or none)
RelationshipStrings ==
    {"equivalent", "subset", "narrower", "superset", "broader", "related",
     "partial", MissingKey}

SynonymTriples ==
    [source_control_id : {"PR.AA-01"},
     target_control_id : {"AC-1", "AC-2"},
     relationship : RelationshipStrings]

SynonymDocChoices ==
    {NoMappingFile} \cup
    {[exists |-> TRUE, mappings |-> ms] : ms \in SeqsUpTo(SynonymTriples, MaxMappings)}

R53ToCsfDoc ==
    [exists |-> TRUE,
     mappings |-> << [source_control_id |-> "AC-2", target_control_id |-> "PR.DS-01",
                      relationship |-> "superset"] >>]

InitMapping ==
    /\ InitProject
    /\ frameworkDocs = [f \in file_map |->
                          IF f = CSF THEN CsfDoc
                          ELSE [exists |-> TRUE, controls |-> R53Controls]]
    /\ mappingDocs \in {[p \in FrameworkPairs |->
                            IF p = <<CSF, R53>> THEN a
                            ELSE IF p = <<R53, CSF>> THEN b
                            ELSE NoMappingFile] :
                          a \in SynonymDocChoices,
                          b \in {NoMappingFile, R53ToCsfDoc}}

NextMapping ==
    \/ NewMapper
    \/ \E p \in {<<CSF, R53>>, <<R53, CSF>>} : LoadMappings(p[1], p[2])

SpecMapping == InitMapping /\ [][NextMapping]_vars

\* Mapping synthesis: no explicit mapping document; the first CSF control
\* carries up to MaxReferences informative references out of ReferenceStrings
ReferenceStrings ==
    {"NIST SP 800-53 Rev. 5: AC-1, SC-28(1)",
     "NIST SP 800-53 Rev. 5: AC-1, AC-2",
     "SP 800-53 Rev 5 SC-28(1) AC-2",
     "NIST SP 800-53 Rev. 5",
     "ISO/IEC 27001:2022: A.8.24",
     "CIS CSC-7, AC-3"}

InitSynthesis ==
    /\ InitProject
    /\ frameworkDocs \in
          {[f \in file_map |->
              IF f = CSF
              THEN [exists |-> TRUE,
                    controls |-> << [id |-> "PR.AA-01", informative_references |-> refs],
                                    CsfControls[2] >>]
              ELSE [exists |-> TRUE, controls |-> R53Controls]] :
           refs \in SeqsUpTo(ReferenceStrings, MaxReferences)}
    /\ mappingDocs = [p \in FrameworkPairs |-> NoMappingFile]

NextSynthesis ==
    \/ NewMapper
    \/ \E p \in {<<CSF, R53>>, <<CSF, UnknownFw>>, <<R53, CSF>>} :
            LoadMappings(p[1], p[2])

SpecSynthesis == InitSynthesis /\ [][NextSynthesis]_vars

----------------------------------------------------------------------------
(* Properties of the compliance state store.                               *)

SummaryReturned == result.op = "get_summary" /\ ~result.returned_none

\* C9: for a framework with at least one catalog control, in every state
\* reached by document_control, link_evidence and remove_control with any
\* of the five statuses, the counts of get_summary add up: implemented +
\* partial + planned + not_applicable + not_addressed = total_controls.
C9_SummaryCountsAddUp ==
    SummaryReturned =>
        result.summary.implemented + result.summary.partial
        + result.summary.planned + result.summary.not_applicable
        + result.summary.not_addressed = result.summary.total_controls

\* the record a manager holds for a key before a call: from its cached
\* state, or from the file when it has loaded nothing yet
HeldBefore(m) == _load_state(m).controls

\* C10: a document_control call with an empty evidence list for a key that
\* already has a record leaves that record's evidence list as it was (same
\* items, same order), in the manager's state and in the persisted document,
\* whatever status and other fields the call carries.
C10_EvidencePreserved ==
    [][\A m \in Managers :
          (/\ result'.op = "document_control"
           /\ result'.manager = m
           /\ result'.evidence = <<>>
           /\ result'.key \in DOMAIN HeldBefore(m))
          => /\ result'.key \in DOMAIN mem'[m].state.controls
             /\ mem'[m].state.controls[result'.key].evidence
                   = HeldBefore(m)[result'.key].evidence
             /\ StateFile'.exists
             /\ LoadFromDisk'.controls[result'.key].evidence
                   = HeldBefore(m)[result'.key].evidence]_vars

\* C10 witness: a document_control call without evidence has just updated a
\* record that existed, and the record still holds its two evidence items in
\* their order, with the status the call carries
C10_Witness ==
    /\ result.op = "document_control"
    /\ result.existed
    /\ result.evidence = <<>>
    /\ mem[result.manager].state.controls[result.key].evidence
          = <<Evidence2, Evidence1>>
    /\ LoadFromDisk.controls[result.key].evidence = <<Evidence2, Evidence1>>
    /\ LoadFromDisk.controls[result.key].status = PLANNED
    /\ LoadFromDisk.controls[result.key].implementation_summary = "reviewed"

\* the evidence items of the record under key k in a controls dict (none
\* when the dict has no such record)
EvidenceOf(controls, k) ==
    IF k \in DOMAIN controls THEN Range(controls[k].evidence) ELSE {}

\* C11: evidence of an existing record is additive: a document_control call
\* on a key that already has a record keeps every evidence item the record
\* held, in the manager's state and in the persisted document, also when the
\* call carries evidence of its own; an item leaves a persisted record only
\* through remove_control or clear_state.
C11_EvidenceAdditive ==
    [][/\ \A m \in Managers :
            (/\ result'.op = "document_control"
             /\ result'.manager = m
             /\ result'.key \in DOMAIN HeldBefore(m))
            => /\ EvidenceOf(HeldBefore(m), result'.key)
                    \subseteq EvidenceOf(mem'[m].state.controls, result'.key)
               /\ EvidenceOf(HeldBefore(m), result'.key)
                    \subseteq EvidenceOf(LoadFromDisk'.controls, result'.key)
       /\ (\E k \in DOMAIN LoadFromDisk.controls :
               ~(EvidenceOf(LoadFromDisk.controls, k)
                    \subseteq EvidenceOf(LoadFromDisk'.controls, k)))
            => result'.op \in {"remove_control", "clear_state"}]_vars

\* C12: link_evidence for a key without record raises ValueError and changes
\* nothing: the manager holds the records it held, the persisted document is
\* the one it was, and the key still has no record.
C12_LinkUndocumentedFails ==
    [][\A m \in Managers :
          (/\ result'.op = "link_evidence"
           /\ result'.manager = m
           /\ result'.key \notin DOMAIN HeldBefore(m))
          => /\ result'.raised = "ValueError"
             /\ mem'[m].state.controls = HeldBefore(m)
             /\ disk' = disk
             /\ result'.key \notin DOMAIN LoadFromDisk'.controls]_vars

\* C12 witness: link_evidence has just raised ValueError for a key without
\* record while the other key has a record with evidence, persisted
C12_Witness ==
    /\ result.op = "link_evidence"
    /\ result.raised = "ValueError"
    /\ result.key \notin DOMAIN mem[result.manager].state.controls
    /\ StateFile.exists
    /\ \E k \in DOMAIN LoadFromDisk.controls :
            /\ k # result.key
            /\ LoadFromDisk.controls[k].evidence # <<>>

\* a successful mutation has just returned
MutationReturned ==
    \/ result.op \in {"document_control", "clear_state"}
    \/ result.op = "link_evidence" /\ result.raised = None
    \/ result.op = "remove_control" /\ result.returned

\* C13: when document_control, link_evidence, remove_control or clear_state
\* has succeeded, the state file exists and holds exactly the JSON dump of
\* the manager's in-memory state (same keys, same records), and what a new
\* manager loads from it is that state.
C13_MutationPersisted ==
    MutationReturned =>
        LET held == mem[result.manager].state
        IN  /\ mem[result.manager].loaded
            /\ StateFile.exists
            /\ DOMAIN StateFile.controls = DOMAIN held.controls
            /\ StateFile.controls = model_dump(held).controls
            /\ LoadFromDisk = held

\* C13 witness: a remove_control has just deleted one of two records; the
\* file holds the remaining record, with its two evidence items
C13_Witness ==
    /\ result.op = "remove_control"
    /\ result.returned
    /\ DOMAIN StateFile.controls = {Key(CSF, "PR.DS-01")}
    /\ Len(StateFile.controls[Key(CSF, "PR.DS-01")].evidence) = 2
    /\ DOMAIN mem[result.manager].state.controls = {Key(CSF, "PR.DS-01")}

\* the records a new manager reads back from the state file
Reloaded == LoadFromDisk.controls

\* C14: after document_control or link_evidence, every record read back from
\* the state file is the in-memory record in every field: control id,
\* framework id, status, derived status and sources, implementation summary,
\* owner, notes, last_updated, and the evidence list item by item (type,
\* path, line range, description) in the same order.
C14_RoundTrip ==
    (result.op \in {"document_control", "link_evidence"} /\ result.raised = None) =>
        LET held == mem[result.manager].state.controls
        IN  /\ DOMAIN Reloaded = DOMAIN held
            /\ \A k \in DOMAIN held :
                  /\ Reloaded[k].control_id = held[k].control_id
                  /\ Reloaded[k].framework_id = held[k].framework_id
                  /\ Reloaded[k].status = held[k].status
                  /\ Reloaded[k].derived_status = held[k].derived_status
                  /\ Reloaded[k].derived_sources = held[k].derived_sources
                  /\ Reloaded[k].implementation_summary = held[k].implementation_summary
                  /\ Reloaded[k].owner = held[k].owner
                  /\ Reloaded[k].notes = held[k].notes
                  /\ Reloaded[k].last_updated = held[k].last_updated
                  /\ Len(Reloaded[k].evidence) = Len(held[k].evidence)
                  /\ \A i \in 1..Len(held[k].evidence) :
                        /\ Reloaded[k].evidence[i].type = held[k].evidence[i].type
                        /\ Reloaded[k].evidence[i].path = held[k].evidence[i].path
                        /\ Reloaded[k].evidence[i].line_range
                              = held[k].evidence[i].line_range
                        /\ Reloaded[k].evidence[i].description
                              = held[k].evidence[i].description

\* C14 witness: link_evidence has just added the item with a line range to
\* a record that held the item without one; the record read back has both,
\* in that order, and the later clock reading; the other key has a record
\* stamped with the earlier reading
C14_Witness ==
    /\ result.op = "link_evidence"
    /\ result.raised = None
    /\ Reloaded[result.key].evidence = <<Evidence2, Evidence1>>
    /\ Reloaded[result.key].last_updated = 2
    /\ \E k \in DOMAIN Reloaded : k # result.key /\ Reloaded[k].last_updated = Noon

\* a controls dict with the timestamps set aside
Timeless(controls) ==
    [k \in DOMAIN controls |-> [controls[k] EXCEPT !.last_updated = ConstructedAt]]

\* C17: document_control is an idempotent upsert: a call that repeats the
\* call before it (same manager, key, status, summary and evidence list)
\* leaves the manager's state and the persisted state as the first call left
\* them, timestamps aside: the key has its one record with the same status,
\* fields and evidence list, and the records of the other keys are untouched,
\* timestamps included.
C17_IdempotentUpsert ==
    [][\A m \in Managers :
          (/\ result'.op = "document_control"
           /\ result'.manager = m
           /\ result'.again)
          => /\ result'.key \in DOMAIN mem'[m].state.controls
             /\ Timeless(mem'[m].state.controls) = Timeless(mem[m].state.controls)
             /\ Timeless(LoadFromDisk'.controls) = Timeless(LoadFromDisk.controls)
             /\ \A k \in DOMAIN mem[m].state.controls \ {result'.key} :
                    /\ mem'[m].state.controls[k] = mem[m].state.controls[k]
                    /\ LoadFromDisk'.controls[k] = LoadFromDisk.controls[k]]_vars

\* C17 witness: the same documentation, with an evidence item, applied twice
\* in a row, the second time at the later clock reading; the record holds
\* the one item of the call, and the other key has a record
C17_Witness ==
    /\ result.op = "document_control"
    /\ result.again
    /\ result.evidence = <<Evidence1>>
    /\ mem[result.manager].state.controls[result.key].evidence = <<Evidence1>>
    /\ mem[result.manager].state.controls[result.key].last_updated = 2
    /\ DOMAIN LoadFromDisk.controls = {Key(CSF, c) : c \in StoreControlIds}

\* a record with its evidence list and timestamp set aside
Unlinked(doc) == [doc EXCEPT !.evidence = <<>>, !.last_updated = ConstructedAt]

\* C18: a successful link_evidence appends exactly the given item at the end
\* of the record's evidence list (the list before the call, then the item),
\* leaves the record's other fields but last_updated as they were, and leaves
\* every other record as it was, in the manager's state and in the persisted
\* document; so k calls leave the prior list followed by the k items in call
\* order.
C18_LinkAppends ==
    [][\A m \in Managers :
          (/\ result'.op = "link_evidence"
           /\ result'.manager = m
           /\ result'.raised = None)
          => LET key == result'.key
                 before == HeldBefore(m)
                 after == mem'[m].state.controls
             IN  /\ key \in DOMAIN before
                 /\ DOMAIN after = DOMAIN before
                 /\ after[key].evidence = before[key].evidence \o <<result'.evidence>>
                 /\ Unlinked(after[key]) = Unlinked(before[key])
                 /\ \A k \in DOMAIN before \ {key} : after[k] = before[k]
                 /\ LoadFromDisk'.controls = after]_vars

\* C18 witness: two link_evidence calls in a row on a record documented with
\* status planned: the list is the first item then the second, the status is
\* still planned, and the other key has a record with its own evidence
C18_Witness ==
    /\ result.op = "link_evidence"
    /\ result.raised = None
    /\ result.evidence = Evidence1
    /\ LoadFromDisk.controls[result.key].evidence = <<Evidence2, Evidence1>>
    /\ LoadFromDisk.controls[result.key].status = PLANNED
    /\ \E k \in DOMAIN LoadFromDisk.controls :
            k # result.key /\ LoadFromDisk.controls[k].evidence = <<Evidence1>>

----------------------------------------------------------------------------
(* Properties of the summary.                                              *)

\* the control ids of a framework's catalog
CatalogIds(framework_id) == {c.id : c \in Range(list_controls(framework_id))}

\* the persisted records of a framework whose control id is not in its
\* catalog
Orphans(framework_id) ==
    {d \in PersistedRecords :
        d.framework_id = framework_id /\ d.control_id \notin CatalogIds(framework_id)}

\* C15: orphaned documentation does not make get_summary fail and is left
\* out of its counts: each per-status count is at most total_controls and
\* not_addressed is never negative.
C15_OrphansExcluded ==
    SummaryReturned =>
        /\ result.raised = None
        /\ \A f \in {"implemented", "partial", "planned", "not_applicable"} :
              result.summary[f] <= result.summary.total_controls
        /\ result.summary.not_addressed >= 0
        /\ result.summary.not_addressed <= result.summary.total_controls

\* the quotient num / den as get_summary reports it equals n / d
SameQuotient(q, n, d) == q.num * d = n * q.den

----------------------------------------------------------------------------
(* Properties of mapping resolution.                                       *)

MappingsReturned == result.op = "_load_mappings"

\* the fixed translation table of relationship strings
SynonymTable ==
    {<<"equivalent", EQUIVALENT>>, <<"subset", NARROWER>>, <<"narrower", NARROWER>>,
     <<"superset", BROADER>>, <<"broader", BROADER>>, <<"related", RELATED>>}

\* the relationship a string of an explicit document stands for
Translated(rel_str) ==
    IF \E p \in SynonymTable : p[1] = rel_str
    THEN (CHOOSE p \in SynonymTable : p[1] = rel_str)[2]
    ELSE RELATED

\* C19: the mappings returned for the ordered pair (source, target) are, when
\* an explicit document exists for that pair, exactly its triples in document
\* order (nothing synthesized), each between the two frameworks of the call
\* and with its relationship string translated by the fixed table (missing or
\* unrecognized: related); only without such a document are they the
\* mappings synthesized from the source catalog's references; the list is
\* cached under the ordered pair, so a call for (B, A) never gets the list of
\* (A, B).
C19_MappingResolution ==
    MappingsReturned =>
        LET src == result.source_framework
            tgt == result.target_framework
            doc == mappingDocs[<<src, tgt>>]
            ms == result.mappings
        IN  /\ doc.exists =>
                  /\ Len(ms) = Len(doc.mappings)
                  /\ \A i \in 1..Len(ms) :
                        /\ ms[i].source_control_id = doc.mappings[i].source_control_id
                        /\ ms[i].target_control_id = doc.mappings[i].target_control_id
                        /\ ms[i].source_framework_id = src
                        /\ ms[i].target_framework_id = tgt
                        /\ ms[i].relationship = Translated(doc.mappings[i].relationship)
            /\ ~doc.exists =>
                  ms = _generate_mappings_from_references(src, tgt)
            /\ cache_key(src, tgt) \in DOMAIN cache
            /\ cache[cache_key(src, tgt)] = ms

\* C19 witness: the mapper that had cached the CSF -> 800-53 list (a subset
\* and a keyless triple, translated to narrower and related) has just
\* returned the different list of the explicit 800-53 -> CSF document
C19_Witness ==
    /\ MappingsReturned
    /\ result.source_framework = R53
    /\ result.target_framework = CSF
    /\ mappingDocs[<<R53, CSF>>].exists
    /\ Len(result.mappings) = 1
    /\ result.mappings[1].relationship = BROADER
    /\ cache_key(CSF, R53) \in DOMAIN cache
    /\ mappingDocs[<<CSF, R53>>].exists
    /\ Len(mappingDocs[<<CSF, R53>>].mappings) = 2
    /\ mappingDocs[<<CSF, R53>>].mappings[1].relationship = "subset"
    /\ mappingDocs[<<CSF, R53>>].mappings[2].relationship = MissingKey
    /\ cache[cache_key(CSF, R53)][1].relationship = NARROWER
    /\ cache[cache_key(CSF, R53)][2].relationship = RELATED

\* an identifier of the form two uppercase letters, hyphen, number, optional
\* parenthesized enhancement, starting at position i of s as a word of its
\* own: the full identifier, enhancement included
IdentifierAt(s, i) ==
    LET e == DigitsEnd(s, i + 3)
        f == DigitsEnd(s, e + 2)
        head == /\ CharAt(s, i - 1) \notin WordChars
                /\ CharAt(s, i) \in UpperChars
                /\ CharAt(s, i + 1) \in UpperChars
                /\ CharAt(s, i + 2) = "-"
                /\ e >= i + 3
        enhanced == /\ CharAt(s, e + 1) = "("
                    /\ f >= e + 2
                    /\ CharAt(s, f + 1) = ")"
        last == IF enhanced THEN f + 1 ELSE e
    IN  [ok |-> head /\ CharAt(s, last + 1) \notin WordChars,
         next |-> last + 1,
         id |-> SubSeq(s, i, last)]

\* the identifiers embedded in s from position i on, left to right
RECURSIVE EmbeddedIdentifiers(_, _)
EmbeddedIdentifiers(s, i) ==
    IF i > Len(s)
    THEN <<>>
    ELSE LET m == IdentifierAt(s, i)
         IN  IF m.ok THEN <<m.id>> \o EmbeddedIdentifiers(s, m.next)
             ELSE EmbeddedIdentifiers(s, i + 1)

\* the target ids of the mappings whose source is ctrl_id, in order
TargetsOf(ms, ctrl_id) ==
    LET picked == SelectSeq(ms, LAMBDA m : m.source_control_id = ctrl_id)
    IN  [k \in DOMAIN picked |-> picked[k].target_control_id]

\* the identifiers the references refs[i..] embed, for the 800-53 target:
\* those of the references that mention the publication
RECURSIVE ReferencedIdentifiers(_, _)
ReferencedIdentifiers(refs, i) ==
    IF i > Len(refs)
    THEN <<>>
    ELSE (IF Contains(refs[i], "800-53") THEN EmbeddedIdentifiers(refs[i], 1) ELSE <<>>)
         \o ReferencedIdentifiers(refs, i + 1)

\* C20: the mappings synthesized towards 800-53 have, for every source
\* control, one mapping per identifier embedded in its references that
\* mention the publication, with the full identifier, enhancement included
\* ('NIST SP 800-53 Rev. 5: AC-1, SC-28(1)' yields AC-1 and SC-28(1)); a
\* reference without identifier or without the publication name yields none.
C20_FullIdentifiers ==
    (MappingsReturned /\ result.target_framework = R53
        /\ ~mappingDocs[<<result.source_framework, R53>>].exists) =>
        \A c \in Range(list_controls(result.source_framework)) :
            TargetsOf(result.mappings, c.id)
                = ReferencedIdentifiers(c.informative_references, 1)

----------------------------------------------------------------------------
(* Projects, managers and reads.                                           *)

\* the managers constructed for a project path
ManagersOf(p) == {m \in Instances : project_path(m) = p}

\* C25: an operation of a manager of one project, read or mutation, leaves
\* the state file and every manager's cached state of each other project as
\* they were.
C25_ProjectsIsolated ==
    [][\A m \in Instances :
          ("manager" \in DOMAIN result' /\ result'.manager = m)
          => \A p \in ProjectPaths \ {project_path(m)} :
                /\ disk'[state_file(p)] = disk[state_file(p)]
                /\ \A n \in ManagersOf(p) : mem'[n] = mem[n]]_vars

\* C25 witness: the manager of the other project has just documented a
\* control there, while the default project holds a different record, with
\* evidence, in its file and in its manager
C25_Witness ==
    /\ result.op = "document_control"
    /\ result.manager = "m3"
    /\ DOMAIN LoadFrom(state_file(OtherProjectPath)).controls = {Key(CSF, "PR.DS-01")}
    /\ DOMAIN LoadFromDisk.controls = {Key(CSF, "PR.AA-01")}
    /\ LoadFromDisk.controls[Key(CSF, "PR.AA-01")].evidence = <<Evidence1>>
    /\ mem["m1"].loaded
    /\ DOMAIN mem["m1"].state.controls = {Key(CSF, "PR.AA-01")}

\* C26: a successful document_control or link_evidence call, made while no
\* other call is running, leaves in the persisted state every record that
\* was there, with every evidence item it had, and the record it wrote:
\* whichever manager of the project makes the call.
C26_NoLostUpdate ==
    [][(/\ result'.op \in {"document_control", "link_evidence"}
        /\ result'.raised = None)
       => /\ result'.key \in DOMAIN LoadFromDisk'.controls
          /\ \A k \in DOMAIN LoadFromDisk.controls :
                /\ k \in DOMAIN LoadFromDisk'.controls
                /\ EvidenceOf(LoadFromDisk.controls, k)
                      \subseteq EvidenceOf(LoadFromDisk'.controls, k)]_vars

\* the operations that read the compliance state
ReadOps == {"get_state", "get_control_documentation", "get_summary", "export",
            "analyze_gap"}

\* C30: get_state, get_control_documentation, get_summary, export and
\* analyze_gap leave every state file as it was, in existence and content;
\* get_state on a project without state file returns an empty state, raises
\* nothing and creates no file.
C30_ReadsLeaveStateFile ==
    [][/\ result'.op \in ReadOps => disk' = disk
       /\ (/\ result'.op = "get_state"
           /\ ~disk[state_file(project_path(result'.manager))].exists)
          => /\ result'.raised = None
             /\ result'.state = EmptyState
             /\ ~disk'[state_file(project_path(result'.manager))].exists]_vars

\* C30 witness: get_state has just returned the empty state for a manager
\* that loaded nothing before, and the project still has no state file
C30_Witness ==
    /\ result.op = "get_state"
    /\ result.state = EmptyState
    /\ mem[result.manager].loaded
    /\ ~StateFile.exists

\* the (framework_id, control_id) pairs of the records in a controls dict
PairsOf(controls) ==
    {<<controls[k].framework_id, controls[k].control_id>> : k \in DOMAIN controls}

\* the records of a controls dict that were documented with the framework
OfFramework(controls, framework_id) ==
    {k \in DOMAIN controls : controls[k].framework_id = framework_id}

\* C29: every stored record belongs to the pair it was documented with:
\* document_control keeps the record of every other pair, a lookup returns
\* only a record of the pair asked for, and get_summary, export and the
\* implemented set of analyze_gap select exactly the records whose
\* framework_id is the requested framework.
C29_RecordPerPair ==
    [][/\ result'.op = "document_control"
          => PairsOf(HeldBefore(result'.manager))
                \subseteq PairsOf(mem'[result'.manager].state.controls)
       /\ (result'.op = "get_control_documentation" /\ result'.returned.found)
          => /\ result'.returned.doc.framework_id = result'.framework_id
             /\ result'.returned.doc.control_id = result'.control_id
       /\ (result'.op = "get_summary" /\ ~result'.returned_none)
          => LET held == mem'[result'.manager].state.controls
             IN  \A st \in StoreStatuses :
                    result'.summary[st]
                       = Cardinality({k \in OfFramework(held, result'.framework_id) :
                                        held[k].status = st})
       /\ result'.op = "export"
          => LET held == mem'[result'.manager].state.controls
             IN  {c.control_id : c \in result'.content.controls}
                    = {held[k].control_id : k \in OfFramework(held, result'.framework_id)}
       /\ (result'.op = "analyze_gap" /\ result'.use_documented_state)
          => result'.current_implemented
                = {r.control_id : r \in {q \in PersistedRecords :
                        /\ q.framework_id = result'.current_framework
                        /\ q.status \in {IMPLEMENTED, NOT_APPLICABLE}}}]_vars

----------------------------------------------------------------------------
(* Gap analysis as a function of the implemented set.                      *)

\* the order gap < partially covered < fully covered
Rank(bucket) ==
    IF bucket = "already_covered" THEN 2
    ELSE IF bucket = "partially_covered" THEN 1
    ELSE 0

\* the class analyze_gap gives target t, for the mappings of the returned
\* analysis, when the implemented set is S
ClassUnder(t, S) == Rank(Classify(t, result.mappings, S).bucket)

\* the coverage_percentage of the returned analysis's catalogs and mappings
\* when the implemented set is S
CoverageUnder(S) ==
    LET target_controls == list_controls(result.target_framework)
    IN  CoveragePercentage(
            Len(Bucket("already_covered", target_controls, 1, result.mappings, S)),
            Len(Bucket("partially_covered", target_controls, 1, result.mappings, S)),
            Len(target_controls))

\* the control ids an implemented set of the current framework is made of
SourceIds ==
    {c.id : c \in Range(list_controls(result.current_framework))}
        \cup {m.source_control_id : m \in Range(result.mappings)}

\* C28: for the catalogs and mappings of a returned analysis, whose
\* implemented set is R: under every subset S of R no target control is
\* classified better than it was under R and the coverage percentage is not
\* higher, and under every superset S of R no target control is classified
\* worse and the coverage percentage is not lower.
C28_Monotone ==
    GapReturned =>
        LET R == result.current_implemented
        IN  /\ \A t \in TargetIds :
                    ClassUnder(t, R)
                        = IF InCovered(t) THEN 2 ELSE IF InPartial(t) THEN 1 ELSE 0
            /\ CoverageUnder(R) = result.summary.coverage_percentage
            /\ \A S \in SUBSET (SourceIds \cup R) :
                    /\ S \subseteq R
                       => /\ \A t \in TargetIds : ClassUnder(t, S) <= ClassUnder(t, R)
                          /\ CoverageUnder(S) <= CoverageUnder(R)
                    /\ R \subseteq S
                       => /\ \A t \in TargetIds : ClassUnder(t, R) <= ClassUnder(t, S)
                          /\ CoverageUnder(R) <= CoverageUnder(S)

\* C28 witness: an analysis has returned a fully covered target that is
\* partially covered under a smaller implemented set and a gap under the
\* empty one, next to a target that is a gap under every set
C28_Witness ==
    /\ GapReturned
    /\ \E t \in TargetIds :
            /\ InCovered(t)
            /\ \E S \in SUBSET result.current_implemented : ClassUnder(t, S) = 1
            /\ ClassUnder(t, {}) = 0
    /\ \E t \in TargetIds : InGaps(t)
    /\ result.summary.coverage_percentage > CoverageUnder({})

\* the returned analysis worked from synthesized mappings: the pair has no
\* explicit mapping document
Synthesized ==
    /\ GapReturned
    /\ ~mappingDocs[<<result.current_framework, result.target_framework>>].exists

\* C27: when the pair (current, target) has no explicit mapping document,
\* every mapping analyze_gap works from has relationship related, and for
\* every documented state and both modes already_covered and
\* partially_covered are empty, every target control is a gap and
\* coverage_percentage is 0.
C27_SynthesizedNeverCovers ==
    Synthesized =>
        /\ \A m \in Range(result.mappings) : m.relationship = RELATED
        /\ result.already_covered = <<>>
        /\ result.partially_covered = <<>>
        /\ \A t \in TargetIds : InGaps(t)
        /\ Len(result.gaps) = result.summary.total_target_controls
        /\ result.summary.coverage_percentage = 0

\* C27 witness: an analysis over synthesized mappings has returned, with an
\* implemented source control that a synthesized mapping ties to a control
\* of the target catalog
C27_Witness ==
    /\ Synthesized
    /\ \E m \in Range(result.mappings) :
            /\ m.source_control_id \in result.current_implemented
            /\ m.target_control_id \in TargetIds
            /\ InGaps(m.target_control_id)

----------------------------------------------------------------------------
(* The framework catalog.                                                  *)

\* no catalog for the id: it is unmapped or its document is absent
Missing(f) == f \notin file_map \/ ~frameworkDocs[f].exists

\* the framework's document exists and holds zero controls
ZeroControls(f) ==
    /\ ~Missing(f)
    /\ _extract_controls(frameworkDocs[f], f) = <<>>

\* C21: loading a missing framework returns "not found" and raises nothing,
\* loading an existing framework with zero controls finds it, and what
\* list_controls and get_control_details return for an existing framework
\* with zero controls differs from what they return, for the same
\* arguments, for a framework that is missing.
C21_NotFoundDistinct ==
    /\ (result.op = "_load_framework" /\ Missing(result.framework_id))
        => result.raised = None /\ ~result.found
    /\ (result.op = "_load_framework" /\ ZeroControls(result.framework_id))
        => result.found
    /\ (result.op = "list_controls" /\ ZeroControls(result.framework_id))
        => result.controls
              # list_controls_by(UnknownFw, result.function, result.category)
    /\ (result.op = "get_control_details" /\ ZeroControls(result.framework_id))
        => result.details # get_control_details(UnknownFw, result.control_id)

\* the ids of a list of controls, in its order
Ids(controls) == [i \in DOMAIN controls |-> controls[i].id]

\* C22: whatever the shape of the catalog document, the related_controls of
\* the details returned for control c are the ids that list_controls
\* returns for c's category, without c.
C22_RelatedSharesCategory ==
    (result.op = "get_control_details" /\ result.details.found)
    => result.details.related_controls
          = Ids(SelectSeq(list_controls_by(result.framework_id, None,
                                           result.details.category_id),
                          LAMBDA o : o.id # result.control_id))

\* the document of the framework is of the flat elements shape
IsElements(f) ==
    /\ ~Missing(f)
    /\ "response" \in DOMAIN frameworkDocs[f]

\* the identifiers of the elements of one type in the framework's document
ElementIds(f, type) ==
    {e.element_identifier :
        e \in {x \in Range(frameworkDocs[f].response.elements.elements) :
                    x.element_type = type}}

\* the element of the parents whose identifier, followed by sep, starts
\* the identifier id ("" when there is none)
ParentOf(id, parents, sep) ==
    IF \E k \in parents : StartsWith(id, k \o sep)
    THEN CHOOSE k \in parents : StartsWith(id, k \o sep)
    ELSE ""

\* C23: from a document of flat elements, list_controls raises nothing; a
\* subcategory has as category_id the identifier of the category element
\* its own identifier extends ("" when it has no separator) and as
\* function_id the identifier of the function element of that category, so
\* that filtering by a category element's identifier returns the
\* subcategories of that category; a control element has as family the
\* part of its identifier before the first hyphen ("" without hyphen).
C23_ElementsHierarchy ==
    (result.op = "list_controls" /\ IsElements(result.framework_id))
    => /\ result.raised = None
       /\ (result.framework_id = CSF /\ ~Truthy(result.function))
          => LET categories == ElementIds(CSF, "category")
                 functions == ElementIds(CSF, "function")
                 Category(id) == ParentOf(id, categories, "-")
             IN  /\ \A c \in Range(result.controls) :
                        /\ c.category_id = Category(c.id)
                        /\ c.function_id = ParentOf(Category(c.id), functions, ".")
                 /\ result.category \in categories
                    => {c.id : c \in Range(result.controls)}
                          = {id \in ElementIds(CSF, "subcategory") :
                                Category(id) = result.category}
       /\ result.framework_id = R53
          => \A c \in Range(result.controls) :
                /\ c.category_id = ParentOf(c.id, ElementIds(R53, "family"), "-")
                /\ c.function_id = c.category_id

----------------------------------------------------------------------------
(* Concurrent first loads.                                                 *)

\* the complete content a request is to return: the parsed catalog, or the
\* whole list of mappings of the pair
CompleteContent(task) ==
    IF task.op = "_load_framework"
    THEN frameworkDocs[task.source]
    ELSE ReadMappings(task.source, task.target)

\* the caches a single load of each requested document, one after the
\* other, leaves behind
SequentialCaches(requests) ==
    [fcache |-> {f \in file_map :
                    /\ frameworkDocs[f].exists
                    /\ \E r \in requests :
                         /\ r.source = f
                         /\ \/ r.op = "_load_framework"
                            \/ ~mappingDocs[<<r.source, r.target>>].exists},
     cache |-> {cache_key(r.source, r.target) :
                    r \in {q \in requests : q.op = "_load_mappings"}}]

\* C24: in every interleaving of the requests' steps, a cache entry is the
\* complete content of its document, a request that has returned has
\* returned the complete content (None for a missing catalog), and when
\* every request has returned the caches hold the entries, with the
\* content, that one load after the other leaves.
C24_NoTornCache ==
    /\ \A f \in DOMAIN fcache : fcache[f] = frameworkDocs[f]
    /\ \A p \in FrameworkPairs :
            cache_key(p[1], p[2]) \in DOMAIN cache
            => cache[cache_key(p[1], p[2])] = ReadMappings(p[1], p[2])
    /\ \A t \in Tasks :
            tasks[t].pc = "done"
            => IF tasks[t].op = "_load_framework" /\ Missing(tasks[t].source)
               THEN ~tasks[t].found
               ELSE /\ tasks[t].found
                    /\ tasks[t].returned = CompleteContent(tasks[t])
    /\ (\A t \in Tasks : tasks[t].pc = "done")
        => LET after == SequentialCaches({tasks[t] : t \in Tasks})
           IN  /\ DOMAIN fcache = after.fcache
               /\ DOMAIN cache = after.cache

\* C24 witness: two requests for the mappings of the same pair have both
\* found nothing cached, both parsed the explicit document and both
\* returned; the cache holds the pair's two mappings
C24_Witness ==
    /\ \A t \in Tasks :
            /\ tasks[t].pc = "done"
            /\ tasks[t].op = "_load_mappings"
            /\ tasks[t].missed
            /\ Len(tasks[t].returned) = 2
    /\ mappingDocs[<<CSF, R53>>].exists
    /\ Len(cache[cache_key(CSF, R53)]) = 2

====
